---- MODULE Spec2Model ----
(***************************************************************************)
(* A model of renpy/text/textsupport.pyx: the markup tokenizer, the greedy *)
(* line breaker and the passes that read its split decisions.              *)
(*                                                                         *)
(* Strings are sequences of characters.  Glyph code points are integers;   *)
(* a line of linebreak_list is the sequence of the code points chr() turns *)
(* into its characters.  Advances and widths are integers (the code holds  *)
(* them in C floats; no claim here rests on a fractional part).            *)
(***************************************************************************)
EXTENDS Integers, Sequences, FiniteSets, TLC

VARIABLES
    s,            \* tokenize: the argument string
    lenticular,   \* renpy.config.lenticular_bracket_ruby
    tok,          \* tokenize: its frame (pc, pos, state, buf, rv)
    glyphs,       \* the glyph array, mutated in place by every pass
    orig,         \* history: the glyph array as the classifier left it
    lb,           \* the frame of the running pass (pc and locals)
    out,          \* the value the pass returned
    lines,        \* the Line objects place_vertical made; Line.glyphs holds
                  \* Glyph objects of the array, modelled by their indices
    break_tailor  \* the process-wide tailoring table (code point -> class)

vars == <<s, lenticular, tok, glyphs, orig, lb, out, lines, break_tailor>>

----------------------------------------------------------------------------
(* Bounds of the model. *)

MaxGlyphs == 4
MaxStrLen == 4

(* Input domains. *)
Advances == {1, 2}
(* <<first_width, rest_width>> *)
WidthPairs == {<<2, 3>>, <<3, 2>>}

----------------------------------------------------------------------------
(* Glyph fields: split classes and ruby roles. *)

SPLIT_NONE == "SPLIT_NONE"
SPLIT_BEFORE == "SPLIT_BEFORE"
SPLIT_INSTEAD == "SPLIT_INSTEAD"
SPLIT_IGNORE == "SPLIT_IGNORE"

RUBY_NONE == "RUBY_NONE"
RUBY_BOTTOM == "RUBY_BOTTOM"
RUBY_TOP == "RUBY_TOP"
RUBY_ALT == "RUBY_ALT"

Splits == {SPLIT_NONE, SPLIT_BEFORE, SPLIT_INSTEAD, SPLIT_IGNORE}

(* Glyph.__cinit__ and the fields the passes below read or write. *)
Glyph(c, sp, rb, adv) ==
    [character |-> c, split |-> sp, ruby |-> rb, advance |-> adv, rtl |-> FALSE]

(* Python's None for split_g; otherwise split_g is an index into glyphs. *)
None == 0

Range(f) == {f[i] : i \in DOMAIN f}

RECURSIVE Reverse(_)
(* list.reverse() *)
Reverse(q) ==
    IF q = <<>> THEN <<>> ELSE Append(Reverse(Tail(q)), Head(q))

----------------------------------------------------------------------------
(* Characters and runs of the tokenizer. *)

LBRACE == "{"
RBRACE == "}"
NEWLINE == "\n"
LENT_LEFT == "U+3010"
LENT_RIGHT == "U+3011"
FULLWIDTH_BAR == "U+FF5C"
BAR == "|"

TEXT == 1
TAG == 2
PARAGRAPH == 3

TEXT_STATE == 1
LEFT_BRACE_STATE == 2
TAG_STATE == 3
LEFT_STATE == 2
RIGHT_STATE == 3

----------------------------------------------------------------------------
(* lenticular_bracket_ruby: the loop over s[i..], then the code after it.  *)

RECURSIVE LenticularFrom(_, _, _, _, _)
LenticularFrom(str, i, state, buf, rv) ==
    IF i > Len(str)
    THEN IF buf # <<>>
         THEN IF state = TEXT_STATE
              THEN Append(rv, <<TEXT, buf>>)
              ELSE IF state = LEFT_STATE
              THEN Append(rv, <<TEXT, <<LENT_LEFT>> \o buf>>)
              ELSE rv \o << <<TAG, <<"r", "t">>>>, <<TEXT, buf>>,
                            <<TAG, <<"/", "r", "t">>>> >>
         ELSE rv
    ELSE LET c == str[i]
         IN  IF state = TEXT_STATE
             THEN IF c = LENT_LEFT
                  THEN LenticularFrom(str, i + 1, LEFT_STATE, <<>>,
                           IF buf # <<>> THEN Append(rv, <<TEXT, buf>>) ELSE rv)
                  ELSE LenticularFrom(str, i + 1, state, Append(buf, c), rv)
             ELSE IF state = LEFT_STATE
             THEN IF c = LENT_LEFT /\ buf = <<>>
                  THEN LenticularFrom(str, i + 1, TEXT_STATE, Append(buf, c), rv)
                  ELSE IF c = LENT_RIGHT
                  THEN LenticularFrom(str, i + 1, TEXT_STATE, <<>>,
                           Append(rv, <<TEXT, <<LENT_LEFT>> \o buf \o <<LENT_RIGHT>> >>))
                  ELSE IF c = FULLWIDTH_BAR \/ c = BAR
                  THEN LenticularFrom(str, i + 1, RIGHT_STATE, <<>>,
                           rv \o << <<TAG, <<"r", "b">>>>, <<TEXT, buf>>,
                                    <<TAG, <<"/", "r", "b">>>> >>)
                  ELSE LenticularFrom(str, i + 1, state, Append(buf, c), rv)
             ELSE IF c = LENT_RIGHT
                  THEN LenticularFrom(str, i + 1, TEXT_STATE, <<>>,
                           rv \o << <<TAG, <<"r", "t">>>>, <<TEXT, buf>>,
                                    <<TAG, <<"/", "r", "t">>>> >>)
                  ELSE LenticularFrom(str, i + 1, state, Append(buf, c), rv)

LenticularBracketRuby(str) == LenticularFrom(str, 1, TEXT_STATE, <<>>, <<>>)

----------------------------------------------------------------------------
(* tokenize, one character of the loop per step. *)

(* tokenize.finish_text: rv after the call *)
FinishText(rv, buf) ==
    IF LENT_LEFT \in Range(buf) /\ lenticular
    THEN rv \o LenticularBracketRuby(buf)
    ELSE Append(rv, <<TEXT, buf>>)

EmptyInputNever(str) == FALSE
(* line 138: not s *)
EmptyInput(str) == str = <<>>

(* line 141 *)
NoMarkup(str) ==
    /\ LBRACE \notin Range(str)
    /\ NEWLINE \notin Range(str)
    /\ LENT_LEFT \notin Range(str)

TagStartLost(c) == <<>>
(* line 179: buf = c *)
TagStart(c) == <<c>>

TagOpenAtEndInTagOnly(state) == state = TAG_STATE
(* line 194 *)
TagOpenAtEnd(state) == state # TEXT_STATE

Returned(rv) == [pc |-> "returned", rv |-> rv]
Raised(msg, rv) == [pc |-> "raised", error |-> msg, rv |-> rv]

TokenizeEnter ==
    /\ tok.pc = "call"
    /\ tok' = IF EmptyInput(s)
              THEN Returned(<<>>)
              ELSE IF NoMarkup(s)
              THEN Returned(<< <<TEXT, s>> >>)
              ELSE [pc |-> "loop", pos |-> 1, state |-> TEXT_STATE,
                    buf |-> <<>>, rv |-> <<>>]
    /\ UNCHANGED <<s, lenticular, glyphs, orig, lb, out, lines, break_tailor>>

TokenizeChar ==
    /\ tok.pc = "loop"
    /\ tok.pos <= Len(s)
    /\ LET c == s[tok.pos]
           next == [tok EXCEPT !.pos = tok.pos + 1]
           flushed == IF tok.buf # <<>> THEN FinishText(tok.rv, tok.buf) ELSE tok.rv
       IN  tok' =
             IF tok.state = TEXT_STATE
             THEN IF c = NEWLINE
                  THEN [next EXCEPT !.rv = Append(flushed, <<PARAGRAPH, <<>> >>),
                                    !.buf = <<>>]
                  ELSE IF c = LBRACE
                  THEN [next EXCEPT !.state = LEFT_BRACE_STATE]
                  ELSE [next EXCEPT !.buf = Append(tok.buf, c)]
             ELSE IF tok.state = LEFT_BRACE_STATE
             THEN IF c = LBRACE
                  THEN [next EXCEPT !.buf = Append(tok.buf, c), !.state = TEXT_STATE]
                  ELSE IF c = RBRACE
                  THEN Raised("Empty text tag", tok.rv)
                  ELSE [next EXCEPT !.rv = flushed, !.buf = TagStart(c),
                                    !.state = TAG_STATE]
             ELSE IF c = RBRACE
                  THEN [next EXCEPT !.rv = Append(tok.rv, <<TAG, tok.buf>>),
                                    !.buf = <<>>, !.state = TEXT_STATE]
                  ELSE [next EXCEPT !.buf = Append(tok.buf, c)]
    /\ UNCHANGED <<s, lenticular, glyphs, orig, lb, out, lines, break_tailor>>

TokenizeExit ==
    /\ tok.pc = "loop"
    /\ tok.pos > Len(s)
    /\ tok' = IF TagOpenAtEnd(tok.state)
              THEN Raised("Open text tag at end of string", tok.rv)
              ELSE Returned(IF tok.buf # <<>>
                            THEN FinishText(tok.rv, tok.buf)
                            ELSE tok.rv)
    /\ UNCHANGED <<s, lenticular, glyphs, orig, lb, out, lines, break_tailor>>

----------------------------------------------------------------------------
(* linebreak_greedy, one loop iteration per step. *)

LbIdle == [pc |-> "classified"]

OverflowsLate(x, width, split_g) == x > width + 1 /\ split_g # None
(* line 555: the test that commits the pending split *)
Overflows(x, width, split_g) == x > width /\ split_g # None

ClearSplitNever(gl, split_g) == gl

(* lines 566-567, 574-575, 584-585: split_g.split = SPLIT_NONE *)
ClearSplit(gl, split_g) ==
    IF split_g # None
    THEN [gl EXCEPT ![split_g].split = SPLIT_NONE]
    ELSE gl

LinebreakGreedyEnter ==
    /\ lb.pc = "classified"
    /\ \E w \in WidthPairs :
          lb' = [pc |-> "scan", breaker |-> "greedy",
                 first_width |-> w[1], rest_width |-> w[2],
                 width |-> w[1], split_g |-> None, pending |-> None,
                 committed |-> None,
                 x |-> 0, splitx |-> 0, ignored |-> 0, pos |-> 1]
    /\ UNCHANGED <<s, lenticular, tok, glyphs, orig, out, lines, break_tailor>>

LinebreakGreedyStep ==
    /\ lb.pc = "scan"
    /\ lb.pos <= Len(glyphs)
    /\ LET g == glyphs[lb.pos]
           next == [lb EXCEPT !.pos = lb.pos + 1]
       IN  IF g.ruby = RUBY_TOP \/ g.ruby = RUBY_ALT
           THEN /\ lb' = next
                /\ glyphs' = glyphs
           ELSE IF g.split = SPLIT_IGNORE
           THEN /\ lb' = [next EXCEPT !.ignored = lb.ignored + g.advance]
                /\ glyphs' = glyphs
           ELSE LET brk == Overflows(lb.x, lb.width, lb.split_g)
                    x0 == IF brk THEN lb.splitx ELSE lb.x
                    sg0 == IF brk THEN None ELSE lb.split_g
                    w0 == IF brk THEN lb.rest_width ELSE lb.width
                    x1 == x0 + g.advance + lb.ignored
                    sx1 == lb.splitx + g.advance + lb.ignored
                    turn == [next EXCEPT !.committed = IF brk THEN lb.split_g ELSE @]
                IN  IF g.split = SPLIT_INSTEAD
                    THEN /\ glyphs' = ClearSplit(glyphs, sg0)
                         /\ lb' = [turn EXCEPT !.x = x1, !.width = w0, !.ignored = 0,
                                               !.split_g = lb.pos, !.splitx = 0]
                    ELSE IF g.split = SPLIT_BEFORE
                    THEN /\ glyphs' = ClearSplit(glyphs, sg0)
                         /\ lb' = [turn EXCEPT !.x = x1, !.width = w0, !.ignored = 0,
                                               !.split_g = lb.pos, !.splitx = g.advance]
                    ELSE /\ glyphs' = glyphs
                         /\ lb' = [turn EXCEPT !.x = x1, !.width = w0, !.ignored = 0,
                                               !.split_g = sg0, !.splitx = sx1]
    /\ UNCHANGED <<s, lenticular, tok, orig, out, lines, break_tailor>>

KeepLastAlways(x, width) == TRUE
KeepLastNever(x, width) == FALSE
(* line 581: "Split at the last character, if necessary." *)
KeepLast(x, width) == x > width

LinebreakGreedyFinish ==
    /\ lb.pc = "scan"
    /\ lb.pos > Len(glyphs)
    /\ LET sg == IF KeepLast(lb.x, lb.width) THEN None ELSE lb.split_g
       IN  /\ glyphs' = ClearSplit(glyphs, sg)
           /\ lb' = [lb EXCEPT !.pc = "broken", !.split_g = sg,
                               !.pending = lb.split_g,
                               !.committed = IF sg = None /\ lb.split_g # None
                                             THEN lb.split_g ELSE @]
    /\ UNCHANGED <<s, lenticular, tok, orig, out, lines, break_tailor>>

----------------------------------------------------------------------------
(* linebreak_nobreak *)

NoSplitButBefore(g) ==
    IF g.split = SPLIT_BEFORE THEN g ELSE [g EXCEPT !.split = SPLIT_NONE]
(* line 595 *)
NoSplit(g) == [g EXCEPT !.split = SPLIT_NONE]

LinebreakNobreak ==
    /\ lb.pc = "classified"
    /\ glyphs' = [i \in DOMAIN glyphs |-> NoSplit(glyphs[i])]
    /\ lb' = [pc |-> "broken", breaker |-> "nobreak"]
    /\ UNCHANGED <<s, lenticular, tok, orig, out, lines, break_tailor>>

----------------------------------------------------------------------------
(* linebreak_list *)

(* chr(g.character): the one-character string of a code point *)
Chr(c) == <<c>>

StartLineEmpty(g) == <<>>
(* line 636: a split-before glyph starts the next line *)
StartLine(g) == Chr(g.character)

(* lines 640-643: the last line is appended only when it is not empty *)
LastLine(rv, line) == IF line # <<>> THEN Append(rv, line) ELSE rv

RECURSIVE LinebreakListFrom(_, _, _, _)
LinebreakListFrom(gl, i, rv, line) ==
    IF i > Len(gl)
    THEN LastLine(rv, line)
    ELSE IF gl[i].split = SPLIT_INSTEAD
    THEN LinebreakListFrom(gl, i + 1, Append(rv, line), <<>>)
    ELSE IF gl[i].split = SPLIT_BEFORE
    THEN LinebreakListFrom(gl, i + 1, Append(rv, line), StartLine(gl[i]))
    ELSE LinebreakListFrom(gl, i + 1, rv, line \o Chr(gl[i].character))

LinebreakList ==
    /\ lb.pc = "broken"
    /\ out' = LinebreakListFrom(glyphs, 1, <<>>, <<>>)
    /\ lb' = [lb EXCEPT !.pc = "listed"]
    /\ UNCHANGED <<s, lenticular, tok, glyphs, orig, lines, break_tailor>>

----------------------------------------------------------------------------
(* reverse_lines.  The returned list holds the same Glyph objects as the   *)
(* argument: it is modelled as the sequence of their indices in glyphs.    *)

RECURSIVE ReverseLinesFrom(_, _, _, _)
ReverseLinesFrom(gl, i, rv, block) ==
    IF i > Len(gl)
    THEN rv \o Reverse(block)
    ELSE IF gl[i].split = SPLIT_INSTEAD
    THEN ReverseLinesFrom(gl, i + 1, Append(rv \o Reverse(block), i), <<>>)
    ELSE ReverseLinesFrom(gl, i + 1, rv, Append(block, i))

ReverseLines ==
    /\ lb.pc = "broken"
    /\ out' = ReverseLinesFrom(glyphs, 1, <<>>, <<>>)
    /\ glyphs' = [i \in DOMAIN glyphs |->
                    IF glyphs[i].split = SPLIT_INSTEAD
                    THEN glyphs[i]
                    ELSE [glyphs[i] EXCEPT !.rtl = TRUE]]
    /\ lb' = [lb EXCEPT !.pc = "reversed"]
    /\ UNCHANGED <<s, lenticular, tok, orig, lines, break_tailor>>

----------------------------------------------------------------------------
(* The glyph arrays a classifier hands to the line breaker.                *)
(*                                                                         *)
(* annotate_western and annotate_anywhere skip ruby glyphs and never give  *)
(* SPLIT_IGNORE; annotate_unicode sets ruby-top/alt glyphs to SPLIT_NONE   *)
(* and leaves glyph 0 with SPLIT_NONE or SPLIT_BEFORE.  So a ruby-top/alt  *)
(* glyph carries SPLIT_NONE, and an array holding SPLIT_IGNORE does not    *)
(* start with SPLIT_INSTEAD or SPLIT_IGNORE.  No pass modelled here reads  *)
(* the advance of a ruby-top/alt glyph or tells RUBY_BOTTOM from           *)
(* RUBY_NONE, so those are drawn from one value.  Code points are distinct *)
(* so that a dropped or duplicated glyph shows in the output.              *)

RubyAdvance == CHOOSE a \in Advances : \A b \in Advances : a >= b

GlyphKinds ==
    {[split |-> sp, ruby |-> RUBY_NONE, advance |-> a] :
        sp \in Splits, a \in Advances}
    \cup {[split |-> SPLIT_NONE, ruby |-> r, advance |-> RubyAdvance] :
        r \in {RUBY_TOP, RUBY_ALT}}

Classified(k) ==
    (\E i \in DOMAIN k : k[i].split = SPLIT_IGNORE)
        => k[1].split \in {SPLIT_NONE, SPLIT_BEFORE}

FirstCodePoint == 96

(* the glyph array of the kinds k *)
GlyphArray(k) ==
    [i \in DOMAIN k |-> Glyph(FirstCodePoint + i, k[i].split, k[i].ruby, k[i].advance)]

TokIdle == [pc |-> "idle"]

InitLinebreak ==
    /\ s = <<>>
    /\ lenticular = FALSE
    /\ tok = TokIdle
    /\ \E n \in 0..MaxGlyphs : \E k \in [1..n -> GlyphKinds] :
          Classified(k) /\ glyphs = GlyphArray(k)
    /\ orig = glyphs
    /\ lb = LbIdle
    /\ out = <<>>
    /\ lines = <<>>
    /\ break_tailor = <<>>

NextLinebreak ==
    \/ LinebreakGreedyEnter
    \/ LinebreakGreedyStep
    \/ LinebreakGreedyFinish
    \/ LinebreakNobreak
    \/ LinebreakList
    \/ ReverseLines

SpecLinebreak == InitLinebreak /\ [][NextLinebreak]_vars

----------------------------------------------------------------------------
(* Reading an array as lines.                                              *)

IsCandidate(g) == g.split \in {SPLIT_BEFORE, SPLIT_INSTEAD}

AddToLast(acc, i) == [acc EXCEPT ![Len(acc)] = Append(@, i)]

RECURSIVE LinesFrom(_, _, _, _, _)
(* The lines of the glyphs refs[k..] of gl, as sequences of indices into   *)
(* gl: a split-instead glyph ends a line and is in none, a split-before    *)
(* glyph starts one.  With skip, ruby-top/alt glyphs are left out.         *)
LinesFrom(gl, refs, k, acc, skip) ==
    IF k > Len(refs)
    THEN acc
    ELSE LET i == refs[k]
         IN  IF skip /\ gl[i].ruby \in {RUBY_TOP, RUBY_ALT}
             THEN LinesFrom(gl, refs, k + 1, acc, skip)
             ELSE IF gl[i].split = SPLIT_INSTEAD
             THEN LinesFrom(gl, refs, k + 1, Append(acc, <<>>), skip)
             ELSE IF gl[i].split = SPLIT_BEFORE
             THEN LinesFrom(gl, refs, k + 1, Append(acc, <<i>>), skip)
             ELSE LinesFrom(gl, refs, k + 1, AddToLast(acc, i), skip)

Indices(gl) == [i \in 1..Len(gl) |-> i]

(* The lines the breaker's budget is about: ruby-top/alt glyphs have no width. *)
CountedLines(gl) == LinesFrom(gl, Indices(gl), 1, << <<>> >>, TRUE)

RECURSIVE SumAdvance(_, _)
SumAdvance(gl, line) ==
    IF line = <<>> THEN 0 ELSE gl[Head(line)].advance + SumAdvance(gl, Tail(line))

AllButLast(q) == SubSeq(q, 1, Len(q) - 1)

RECURSIVE TrimIgnored(_, _)
(* a line without the SPLIT_IGNORE glyphs it ends in *)
TrimIgnored(gl, line) ==
    IF line # <<>> /\ gl[line[Len(line)]].split = SPLIT_IGNORE
    THEN TrimIgnored(gl, AllButLast(line))
    ELSE line

(* The budget in force for the li-th line. *)
Budget(li) == IF li = 1 THEN lb.first_width ELSE lb.rest_width

(* body, a prefix of line, exceeds budget w although a split candidate of  *)
(* the classifier lay inside the line at or before the glyph at which the  *)
(* sum first exceeded w.                                                   *)
OverflowsPastCandidate(line, body, w) ==
    \E j \in 1..Len(body) :
        /\ SumAdvance(orig, SubSeq(body, 1, j)) > w
        /\ \A m \in 1..(j - 1) : SumAdvance(orig, SubSeq(body, 1, m)) <= w
        /\ \E m \in 2..j : IsCandidate(orig[line[m]])

GreedyDone == lb.pc = "broken" /\ lb.breaker = "greedy"

(* C1, as claimed: after linebreak_greedy no line, its final glyph left    *)
(* out, exceeds its width budget when a split candidate existed on the     *)
(* line before the point of overflow.                                      *)
C1_FitsButFinalGlyph ==
    GreedyDone =>
        \A li \in DOMAIN CountedLines(glyphs) :
            LET line == CountedLines(glyphs)[li]
            IN  ~OverflowsPastCandidate(line, AllButLast(line), Budget(li))

(* C1, amended: after linebreak_greedy no line, leaving out its final      *)
(* glyph or, when it ends in SPLIT_IGNORE glyphs, that whole trailing run, *)
(* exceeds its width budget when a split candidate existed on the line     *)
(* before the point of overflow.                                           *)
C1_FitsButHangingIgnored ==
    GreedyDone =>
        \A li \in DOMAIN CountedLines(glyphs) :
            LET line == CountedLines(glyphs)[li]
                body == IF TrimIgnored(orig, line) # line
                        THEN TrimIgnored(orig, line)
                        ELSE AllButLast(line)
            IN  ~OverflowsPastCandidate(line, body, Budget(li))

(* A break was committed at a candidate, another candidate was given up,   *)
(* and the text holds closing punctuation.                                 *)
C1_Witness ==
    /\ GreedyDone
    /\ Len(CountedLines(glyphs)) >= 2
    /\ \E i \in DOMAIN glyphs : orig[i].split = SPLIT_IGNORE
    /\ \E i \in DOMAIN glyphs : IsCandidate(orig[i]) /\ glyphs[i].split = SPLIT_NONE
    /\ \E i \in DOMAIN glyphs : IsCandidate(orig[i]) /\ IsCandidate(glyphs[i])

(* C2, as claimed: when the scan ends with the line's width over the       *)
(* budget, the pending split candidate is discarded.                       *)
C2_OverBudgetDiscards ==
    (GreedyDone /\ lb.pending # None /\ lb.x > lb.width)
        => glyphs[lb.pending].split = SPLIT_NONE

(* C2, amended: when the scan ends with the line's width over the budget,  *)
(* the pending split candidate stays a line break; it is discarded (set    *)
(* to SPLIT_NONE) exactly when the width is within the budget.             *)
C2_OverBudgetKeeps ==
    (GreedyDone /\ lb.pending # None) =>
        /\ IsCandidate(orig[lb.pending])
        /\ IF lb.x > lb.width
           THEN glyphs[lb.pending].split = orig[lb.pending].split
           ELSE glyphs[lb.pending].split = SPLIT_NONE

C2_Witness ==
    /\ GreedyDone
    /\ lb.pending # None
    /\ lb.x > lb.width
    /\ IsCandidate(glyphs[lb.pending])

----------------------------------------------------------------------------
(* linebreak_list read back. *)

RECURSIVE Characters(_)
(* the characters of all glyphs, in order *)
Characters(gl) ==
    IF gl = <<>> THEN <<>> ELSE Chr(Head(gl).character) \o Characters(Tail(gl))

NobreakListed == lb.pc = "listed" /\ lb.breaker = "nobreak"

(* C8, as claimed: linebreak_nobreak followed by linebreak_list returns a  *)
(* one-element list holding the characters of all glyphs, for every glyph  *)
(* array.                                                                  *)
C8_NobreakOneLine ==
    NobreakListed => out = <<Characters(glyphs)>>

(* C8, amended: for every glyph array that is not empty,                   *)
(* linebreak_nobreak followed by linebreak_list returns a one-element list *)
(* holding the characters of all glyphs; for the empty array it returns    *)
(* the empty list.                                                         *)
C8_NobreakOneLineUnlessEmpty ==
    NobreakListed =>
        out = IF glyphs = <<>> THEN <<>> ELSE <<Characters(glyphs)>>

C8_Witness ==
    /\ NobreakListed
    /\ Len(glyphs) >= 2
    /\ \E i \in DOMAIN orig : orig[i].split = SPLIT_BEFORE
    /\ \E i \in DOMAIN orig : orig[i].split = SPLIT_INSTEAD
    /\ Len(out) = 1

(* The mark that stands for a line break in a joined text: a code point    *)
(* no glyph carries.                                                       *)
BreakMark == FirstCodePoint

RECURSIVE Join(_)
(* the lines joined, one break mark between consecutive lines *)
Join(ll) ==
    IF ll = <<>> THEN <<>>
    ELSE IF Len(ll) = 1 THEN ll[1]
    ELSE ll[1] \o <<BreakMark>> \o Join(Tail(ll))

RECURSIVE Marked(_)
(* the characters of the array with its kept breaks written as marks: a    *)
(* split-instead glyph is the mark, a split-before glyph follows one       *)
Marked(gl) ==
    IF gl = <<>> THEN <<>>
    ELSE (IF Head(gl).split = SPLIT_INSTEAD THEN <<BreakMark>>
          ELSE IF Head(gl).split = SPLIT_BEFORE
          THEN <<BreakMark>> \o Chr(Head(gl).character)
          ELSE Chr(Head(gl).character))
         \o Marked(Tail(gl))

KeptBreaks(gl) == Cardinality({i \in DOMAIN gl : IsCandidate(gl[i])})

GreedyListed == lb.pc = "listed" /\ lb.breaker = "greedy"

(* C9, as claimed: after linebreak_greedy, linebreak_list returns one line *)
(* more than there are kept breaks, and the lines joined with the breaks   *)
(* put back are the original characters (stated here for the arrays that  *)
(* hold a glyph).                                                          *)
C9_RoundTrip ==
    (GreedyListed /\ glyphs # <<>>) =>
        /\ Len(out) = KeptBreaks(glyphs) + 1
        /\ Join(out) = Marked(glyphs)

(* linebreak_list leaves out the last line when it is empty *)
LastLineEmpty(gl) == gl = <<>> \/ gl[Len(gl)].split = SPLIT_INSTEAD

(* C9, amended: after linebreak_greedy, linebreak_list returns one line    *)
(* more than there are kept breaks, except that an empty last line (empty  *)
(* array, or a kept split-instead as the last glyph) is not returned; the  *)
(* lines joined with the breaks put back, and the break of a left-out last *)
(* line added, are the original characters.                                *)
C9_RoundTripButEmptyLastLine ==
    GreedyListed =>
        /\ Len(out) = KeptBreaks(glyphs) + (IF LastLineEmpty(glyphs) THEN 0 ELSE 1)
        /\ Join(out) \o (IF LastLineEmpty(glyphs) /\ glyphs # <<>>
                         THEN <<BreakMark>> ELSE <<>>)
              = Marked(glyphs)

C9_Witness ==
    /\ GreedyListed
    /\ Len(out) >= 3
    /\ \E i \in DOMAIN glyphs : glyphs[i].split = SPLIT_BEFORE
    /\ \E i \in DOMAIN glyphs : glyphs[i].split = SPLIT_INSTEAD
    /\ \E i \in DOMAIN glyphs : IsCandidate(orig[i]) /\ ~IsCandidate(glyphs[i])

----------------------------------------------------------------------------
(* reverse_lines read back. *)

(* the lines of a list of glyphs of gl, every glyph counted *)
Lines(gl, refs) == LinesFrom(gl, refs, 1, << <<>> >>, FALSE)

(* C10: reverse_lines keeps every glyph in its line and the lines in their *)
(* order, and reverses the glyphs within each line, the lines being        *)
(* delimited by the kept split-instead and split-before glyphs; the result *)
(* is a permutation of the argument.                                       *)
C10_ReverseKeepsLines ==
    lb.pc = "reversed" =>
        /\ Len(out) = Len(glyphs)
        /\ Range(out) = DOMAIN glyphs
        /\ Len(Lines(glyphs, out)) = Len(Lines(glyphs, Indices(glyphs)))
        /\ \A li \in DOMAIN Lines(glyphs, out) :
               Lines(glyphs, out)[li] = Reverse(Lines(glyphs, Indices(glyphs))[li])

----------------------------------------------------------------------------
(* The strings given to tokenize: every string up to MaxStrLen over the    *)
(* characters the tokenizer tells apart, the two examples of the           *)
(* documentation, and explicit ruby markup around short texts.             *)

Alphabet ==
    {"a", LBRACE, RBRACE, NEWLINE, LENT_LEFT, LENT_RIGHT, FULLWIDTH_BAR, BAR}

ExampleTags == <<"a", LBRACE, "b", RBRACE, "b", LBRACE, "/", "b", RBRACE, "c">>
ExampleParagraph == <<"a", NEWLINE, "b">>

RubyTexts == {<<>>, <<"a">>, <<"a", "b">>}
Around == {<<>>, <<"c">>}

(* pre{rb}base{/rb}{rt}reading{/rt}post *)
ExplicitRuby(pre, base, reading, post) ==
    pre \o <<LBRACE, "r", "b", RBRACE>> \o base
        \o <<LBRACE, "/", "r", "b", RBRACE, LBRACE, "r", "t", RBRACE>> \o reading
        \o <<LBRACE, "/", "r", "t", RBRACE>> \o post

ExplicitRubyStrings ==
    {ExplicitRuby(pre, b, r, post) :
        pre \in Around, b \in RubyTexts, r \in RubyTexts, post \in Around}

InitTokenize ==
    /\ \/ \E n \in 0..MaxStrLen : s \in [1..n -> Alphabet]
       \/ s \in {ExampleTags, ExampleParagraph}
       \/ s \in ExplicitRubyStrings
    /\ lenticular \in BOOLEAN
    /\ tok = [pc |-> "call"]
    /\ glyphs = <<>>
    /\ orig = <<>>
    /\ lb = [pc |-> "idle"]
    /\ out = <<>>
    /\ lines = <<>>
    /\ break_tailor = <<>>

NextTokenize ==
    \/ TokenizeEnter
    \/ TokenizeChar
    \/ TokenizeExit

SpecTokenize == InitTokenize /\ [][NextTokenize]_vars

----------------------------------------------------------------------------
(* tokenize read back. *)

(* C3, as claimed: on every string without "{", newline and the ruby       *)
(* bracket, tokenize returns the single run (TEXT, s).                     *)
C3_PlainIsOneText ==
    (tok.pc # "call" /\ NoMarkup(s)) => tok = Returned(<< <<TEXT, s>> >>)

(* C3, amended: on every string that is not empty and holds no "{",        *)
(* newline or ruby bracket, tokenize returns the single run (TEXT, s); on  *)
(* the empty string it returns no run.                                     *)
C3_PlainIsOneTextUnlessEmpty ==
    (tok.pc # "call" /\ NoMarkup(s)) =>
        tok = Returned(IF s = <<>> THEN <<>> ELSE << <<TEXT, s>> >>)

C3_Witness ==
    /\ tok.pc = "returned"
    /\ NoMarkup(s)
    /\ Len(s) >= 3
    /\ RBRACE \in Range(s)
    /\ LENT_RIGHT \in Range(s)
    /\ tok.rv = << <<TEXT, s>> >>

(* The position of the first "}" of str, 0 when it has none. *)
FirstClose(str) ==
    IF RBRACE \in Range(str)
    THEN CHOOSE k \in DOMAIN str :
            str[k] = RBRACE /\ \A j \in 1..(k - 1) : str[j] # RBRACE
    ELSE 0

RECURSIVE Defect(_)
(* What is wrong with the markup of str, read from the left: "{{" is a     *)
(* literal brace, "{}" an empty tag, any other "{" opens a tag that runs   *)
(* to the next "}".                                                        *)
Defect(str) ==
    IF str = <<>> THEN "none"
    ELSE IF Head(str) # LBRACE THEN Defect(Tail(str))
    ELSE IF Len(str) = 1 THEN "open"
    ELSE IF str[2] = LBRACE THEN Defect(SubSeq(str, 3, Len(str)))
    ELSE IF str[2] = RBRACE THEN "empty"
    ELSE IF FirstClose(str) = 0 THEN "open"
    ELSE Defect(SubSeq(str, FirstClose(str) + 1, Len(str)))

TokenizeDone == tok.pc \in {"returned", "raised"}

(* C4: tokenize raises a markup error exactly when the input ends inside   *)
(* an open tag or holds an empty tag "{}"; on every other input it returns *)
(* a run list.                                                             *)
C4_RaisesIffMalformed ==
    TokenizeDone =>
        /\ (tok.pc = "raised") <=> (Defect(s) # "none")
        /\ (tok.pc = "raised" /\ tok.error = "Empty text tag")
              <=> (Defect(s) = "empty")
        /\ (tok.pc = "raised" /\ tok.error = "Open text tag at end of string")
              <=> (Defect(s) = "open")

C4_Witness ==
    /\ tok.pc = "raised"
    /\ tok.error = "Open text tag at end of string"
    /\ s[Len(s)] = LBRACE
    /\ Len(tok.rv) >= 1

RECURSIVE DoubleBraces(_)
(* a text with every "{" doubled *)
DoubleBraces(str) ==
    IF str = <<>> THEN <<>>
    ELSE (IF Head(str) = LBRACE THEN <<LBRACE, LBRACE>> ELSE <<Head(str)>>)
         \o DoubleBraces(Tail(str))

RECURSIVE Render(_)
(* the markup a run list stands for *)
Render(runs) ==
    IF runs = <<>> THEN <<>>
    ELSE LET run == Head(runs)
         IN  (IF run[1] = TEXT THEN DoubleBraces(run[2])
              ELSE IF run[1] = TAG THEN <<LBRACE>> \o run[2] \o <<RBRACE>>
              ELSE <<NEWLINE>>)
             \o Render(Tail(runs))

(* C5: when tokenize returns on a string without the ruby bracket, the     *)
(* runs rendered back (TEXT with "{" doubled, TAG in braces, PARAGRAPH as  *)
(* a newline) are the string; no TEXT or TAG run is empty, PARAGRAPH runs  *)
(* are, no two TEXT runs are adjacent, and the two documented examples     *)
(* give the documented runs.                                               *)
C5_RunsRenderBack ==
    (tok.pc = "returned" /\ LENT_LEFT \notin Range(s)) =>
        /\ Render(tok.rv) = s
        /\ \A k \in DOMAIN tok.rv :
              /\ tok.rv[k][1] \in {TEXT, TAG, PARAGRAPH}
              /\ tok.rv[k][1] \in {TEXT, TAG} => tok.rv[k][2] # <<>>
              /\ tok.rv[k][1] = PARAGRAPH => tok.rv[k][2] = <<>>
              /\ (k > 1 /\ tok.rv[k][1] = TEXT) => tok.rv[k - 1][1] # TEXT
        /\ s = ExampleTags =>
              tok.rv = << <<TEXT, <<"a">> >>, <<TAG, <<"b">> >>, <<TEXT, <<"b">> >>,
                          <<TAG, <<"/", "b">> >>, <<TEXT, <<"c">> >> >>
        /\ s = ExampleParagraph =>
              tok.rv = << <<TEXT, <<"a">> >>, <<PARAGRAPH, <<>> >>, <<TEXT, <<"b">> >> >>

C5_Witness ==
    /\ tok.pc = "returned"
    /\ s = ExampleTags
    /\ Len(tok.rv) = 5

RECURSIVE TextOf(_)
(* the texts of the TEXT runs, in order *)
TextOf(runs) ==
    IF runs = <<>> THEN <<>>
    ELSE (IF Head(runs)[1] = TEXT THEN Head(runs)[2] ELSE <<>>) \o TextOf(Tail(runs))

OneOpenBracketOnly(str) ==
    /\ Cardinality({k \in DOMAIN str : str[k] = LENT_LEFT}) = 1
    /\ Range(str) \subseteq {"a", LENT_LEFT}

(* C6: with lenticular ruby on, a ruby bracket that is never closed is     *)
(* literal text: the TEXT runs hold the bracket and every other character  *)
(* of the input, and no tag is emitted (stated for the texts that hold one *)
(* opening bracket and otherwise plain characters).                        *)
C6_UnmatchedBracketIsLiteral ==
    (tok.pc = "returned" /\ lenticular /\ OneOpenBracketOnly(s)) =>
        /\ TextOf(tok.rv) = s
        /\ \A k \in DOMAIN tok.rv : tok.rv[k][1] = TEXT

(* C7: lenticular_bracket_ruby on a bracket group, with either separator   *)
(* and with text before and after it, returns the runs tokenize returns    *)
(* for the explicit markup {rb}base{/rb}{rt}reading{/rt}.                  *)
C7_BracketEqualsExplicit ==
    tok.pc = "returned" =>
        \A pre \in Around, b \in RubyTexts, r \in RubyTexts, post \in Around,
           sep \in {FULLWIDTH_BAR, BAR} :
            s = ExplicitRuby(pre, b, r, post) =>
                LenticularBracketRuby(
                    pre \o <<LENT_LEFT>> \o b \o <<sep>> \o r \o <<LENT_RIGHT>> \o post)
                  = tok.rv

----------------------------------------------------------------------------
(* Placed glyphs and lines: the fields the timing and hyperlink passes     *)
(* read or write.                                                          *)
(*                                                                         *)
(* Times are counted in ticks, the largest unit in which 1/gps is a whole  *)
(* number for every rate of Rates.  The rates are powers of two, so the C  *)
(* floats of the code hold every time of the model exactly.                *)

MaxTimed == 3

(* gps, glyphs per second *)
Rates == {0, 1, 2}
TicksPerSecond == CHOOSE n \in Rates \ {0} : \A r \in Rates \ {0} : n % r = 0
Seconds(n) == n * TicksPerSecond

(* the -1 of line 852 *)
Sentinel == Seconds(0 - 1)

(* t, in seconds *)
StartTimes == {Seconds(0), Seconds(1)}

(* Glyph.__cinit__ sets duration to -1 *)
PlacedGlyph(rb, tm, h, x, w) ==
    [ruby |-> rb, time |-> tm, duration |-> Sentinel, hyperlink |-> h,
     x |-> x, width |-> w]

(* Line.__init__; max_time is a C float of a cdef class, zero until set *)
Line(y, baseline, height, gl) ==
    [y |-> y, baseline |-> baseline, height |-> height, glyphs |-> gl,
     eop |-> FALSE, max_time |-> 0]

Max(S) == CHOOSE m \in S : \A n \in S : m >= n
Min(S) == CHOOSE m \in S : \A n \in S : m <= n

----------------------------------------------------------------------------
(* assign_times *)

TimedButAlt(g) == g.ruby # RUBY_TOP
(* line 851, negated: the glyphs that take a time *)
Timed(g) == ~(g.ruby = RUBY_TOP \/ g.ruby = RUBY_ALT)

(* lines 844-847 *)
Tpg(gps) == IF gps = 0 THEN 0 ELSE TicksPerSecond \div gps

(* assign_times returning the t it was given *)
AssignTimesFromStart(gl, i, t, tpg) ==
    [glyphs |-> [k \in DOMAIN gl |->
                    IF k < i THEN gl[k]
                    ELSE IF ~Timed(gl[k]) THEN [gl[k] EXCEPT !.time = Sentinel]
                    ELSE [gl[k] EXCEPT
                             !.time = t + tpg * Cardinality({j \in i..k : Timed(gl[j])}),
                             !.duration = tpg]],
     t |-> t]

RECURSIVE AssignTimesFrom(_, _, _, _)
(* lines 849-859: the loop from glyph i on, and the return value *)
AssignTimesFrom(gl, i, t, tpg) ==
    IF i > Len(gl)
    THEN [glyphs |-> gl, t |-> t]
    ELSE IF ~Timed(gl[i])
    THEN AssignTimesFrom([gl EXCEPT ![i].time = Sentinel], i + 1, t, tpg)
    ELSE AssignTimesFrom([gl EXCEPT ![i].time = t + tpg, ![i].duration = tpg],
                         i + 1, t + tpg, tpg)

AssignTimes ==
    /\ lb.pc = "placed"
    /\ \E t \in StartTimes : \E gps \in Rates :
          LET r == AssignTimesFrom(glyphs, 1, t, Tpg(gps))
          IN  /\ glyphs' = r.glyphs
              /\ out' = r.t
              /\ lb' = [pc |-> "timed", t |-> t, gps |-> gps]
    /\ UNCHANGED <<s, lenticular, tok, orig, lines, break_tailor>>

----------------------------------------------------------------------------
(* max_times *)

Earlier(time, max_time) == time < max_time
(* line 875 *)
Later(time, max_time) == time > max_time

RECURSIVE MaxTimeOver(_, _, _, _)
(* lines 874-876: the inner loop over line.glyphs, from its i-th glyph on *)
MaxTimeOver(gl, refs, i, max_time) ==
    IF i > Len(refs)
    THEN max_time
    ELSE MaxTimeOver(gl, refs, i + 1,
                     IF Later(gl[refs[i]].time, max_time)
                     THEN gl[refs[i]].time ELSE max_time)

RECURSIVE MaxTimesFrom(_, _, _, _)
(* lines 873-880: the outer loop from line k on, and the return value *)
MaxTimesFrom(gl, ll, k, max_time) ==
    IF k > Len(ll)
    THEN [lines |-> ll, max_time |-> max_time]
    ELSE LET m == MaxTimeOver(gl, ll[k].glyphs, 1, max_time)
         IN  MaxTimesFrom(gl, [ll EXCEPT ![k].max_time = m], k + 1, m)

MaxTimes ==
    /\ lb.pc \in {"placed", "timed"}
    /\ LET r == MaxTimesFrom(glyphs, lines, 1, 0)
       IN  /\ lines' = r.lines
           /\ out' = r.max_time
    /\ lb' = [lb EXCEPT !.pc = "maxed"]
    /\ UNCHANGED <<s, lenticular, tok, glyphs, orig, break_tailor>>

----------------------------------------------------------------------------
(* The lines and times the timing passes are given.  A Line holds a        *)
(* contiguous run of the array (place_vertical, line 783), possibly empty; *)
(* a glyph's time is what an earlier assign_times or the caller left.      *)

Slice(a, b) == [i \in 1..(b - a + 1) |-> a + i - 1]

(* three lines cut after glyph a and after glyph b *)
LinesCutAt(n, a, b) ==
    <<Line(1, 1, 1, Slice(1, a)), Line(2, 2, 1, Slice(a + 1, b)),
      Line(3, 3, 1, Slice(b + 1, n))>>

TimeKinds ==
    [ruby : {RUBY_NONE, RUBY_TOP, RUBY_ALT}, time : {Sentinel, 0, Seconds(1)}]

InitTimes ==
    /\ s = <<>>
    /\ lenticular = FALSE
    /\ tok = TokIdle
    /\ \E n \in 0..MaxTimed : \E k \in [1..n -> TimeKinds] :
          /\ glyphs = [i \in 1..n |-> PlacedGlyph(k[i].ruby, k[i].time, 0, 0, 0)]
          /\ \E a \in 0..n : \E b \in a..n : lines = LinesCutAt(n, a, b)
    /\ orig = glyphs
    /\ lb = [pc |-> "placed"]
    /\ out = <<>>
    /\ break_tailor = <<>>

NextTimes ==
    \/ AssignTimes
    \/ MaxTimes

SpecTimes == InitTimes /\ [][NextTimes]_vars

(* the glyphs of lines 1..k *)
GlyphsUpTo(k) == UNION {Range(lines[j].glyphs) : j \in 1..k}

(* assign_times ran before max_times *)
MaxedAfterTimed == lb.pc = "maxed" /\ "gps" \in DOMAIN lb

(* C11 as claimed: after assign_times and max_times, the max_time of every *)
(* line that holds a glyph is the largest time among that line's own       *)
(* glyphs.                                                                 *)
C11_OwnMaximum ==
    MaxedAfterTimed =>
        \A k \in DOMAIN lines :
            lines[k].glyphs # <<>> =>
                lines[k].max_time =
                    Max({glyphs[i].time : i \in Range(lines[k].glyphs)})

(* C11 amended: after max_times, the max_time of every line is the largest *)
(* of 0 and the times of the glyphs of that line and of every line before  *)
(* it in the list, and max_times returns the largest of 0 and the times of *)
(* all the lines' glyphs.                                                  *)
C11_RunningMaximum ==
    lb.pc = "maxed" =>
        /\ \A k \in DOMAIN lines :
              lines[k].max_time =
                  Max({0} \cup {glyphs[i].time : i \in GlyphsUpTo(k)})
        /\ out = Max({0} \cup {glyphs[i].time : i \in GlyphsUpTo(Len(lines))})

(* a later line whose own glyphs are all earlier than a glyph before it *)
C11_Witness ==
    /\ lb.pc = "maxed"
    /\ \E k \in DOMAIN lines :
          /\ lines[k].glyphs # <<>>
          /\ \A i \in Range(lines[k].glyphs) : glyphs[i].time < lines[k].max_time
          /\ lines[k].max_time > 0

(* the number of glyphs among gl[1..i] that are neither ruby-top nor alt *)
TimedUpTo(gl, i) ==
    Cardinality({j \in 1..i : gl[j].ruby \notin {RUBY_TOP, RUBY_ALT}})

(* C13: assign_times(t, gps, glyphs) gives the k-th glyph that is neither  *)
(* ruby-top nor alt the time t + k/gps (t when gps is 0), gives every      *)
(* ruby-top or alt glyph the time -1 and returns the time of the last      *)
(* timed glyph, t if there is none; so with gps 0 every timed glyph has    *)
(* the time t, and with gps > 0 two timed glyphs in a row are 1/gps apart. *)
C13_Times ==
    lb.pc = "timed" =>
        /\ \A i \in DOMAIN glyphs :
              IF glyphs[i].ruby \in {RUBY_TOP, RUBY_ALT}
              THEN glyphs[i].time = Seconds(0 - 1)
              ELSE IF lb.gps = 0
              THEN glyphs[i].time = lb.t
              ELSE lb.gps * (glyphs[i].time - lb.t)
                       = Seconds(TimedUpTo(glyphs, i))
        /\ IF lb.gps = 0
           THEN out = lb.t
           ELSE lb.gps * (out - lb.t) = Seconds(TimedUpTo(glyphs, Len(glyphs)))
        /\ lb.gps > 0 =>
              \A i, j \in DOMAIN glyphs :
                  (/\ i < j
                   /\ TimedUpTo(glyphs, j) = TimedUpTo(glyphs, i) + 1
                   /\ glyphs[i].ruby \notin {RUBY_TOP, RUBY_ALT}
                   /\ glyphs[j].ruby \notin {RUBY_TOP, RUBY_ALT})
                      => lb.gps * (glyphs[j].time - glyphs[i].time) = Seconds(1)

(* two timed glyphs around an alt-ruby glyph, at a rate above 0 *)
C13_Witness ==
    /\ lb.pc = "timed"
    /\ lb.gps > 0
    /\ \E i, j, k \in DOMAIN glyphs :
          /\ i < j /\ j < k
          /\ glyphs[i].ruby = RUBY_NONE
          /\ glyphs[j].ruby = RUBY_ALT
          /\ glyphs[k].ruby = RUBY_NONE
          /\ glyphs[k].time > glyphs[i].time

----------------------------------------------------------------------------
(* hyperlink_areas *)

(* line 924, "Just a big number", in seconds *)
HYPERLINK_TIME_START == 86400
(* line 926 *)
MIN_X_START == 1000000

(* lines 934 and 954: the tuple appended for the run just closed *)
Area(hyperlink, min_x, max_x, line, hyperlink_time) ==
    <<hyperlink, min_x, line.y, max_x - min_x, line.height, hyperlink_time>>

RECURSIVE HyperlinkAreasLine(_, _, _, _, _, _, _, _)
(* lines 929-954: the scan of one line from its glyph pos on, and the      *)
(* flush after it; hyperlink 0 is Python's false                           *)
HyperlinkAreasLine(gl, line, pos, hyperlink, hyperlink_time, max_x, min_x, rv) ==
    IF pos > Len(line.glyphs)
    THEN IF hyperlink # 0
         THEN Append(rv, Area(hyperlink, min_x, max_x, line, hyperlink_time))
         ELSE rv
    ELSE LET g == gl[line.glyphs[pos]]
             flush == hyperlink # 0 /\ g.hyperlink # hyperlink
             rv1 == IF flush
                    THEN Append(rv, Area(hyperlink, min_x, max_x, line, hyperlink_time))
                    ELSE rv
             time1 == IF flush THEN Seconds(HYPERLINK_TIME_START) ELSE hyperlink_time
             max1 == IF flush THEN 0 ELSE max_x
             min1 == IF flush THEN MIN_X_START ELSE min_x
         IN  IF g.hyperlink # 0
             THEN HyperlinkAreasLine(gl, line, pos + 1, g.hyperlink,
                     IF g.time < time1 THEN g.time ELSE time1,
                     IF g.x + g.width > max1 THEN g.x + g.width ELSE max1,
                     IF g.x < min1 THEN g.x ELSE min1,
                     rv1)
             ELSE HyperlinkAreasLine(gl, line, pos + 1, g.hyperlink,
                     time1, max1, min1, rv1)

RECURSIVE HyperlinkAreasFrom(_, _, _, _)
(* lines 919-956: the loop over the lines from line k on *)
HyperlinkAreasFrom(gl, ll, k, rv) ==
    IF k > Len(ll)
    THEN rv
    ELSE HyperlinkAreasFrom(gl, ll, k + 1,
             HyperlinkAreasLine(gl, ll[k], 1, 0, Seconds(HYPERLINK_TIME_START),
                                0, MIN_X_START, rv))

HyperlinkAreas ==
    /\ lb.pc = "placed"
    /\ out' = HyperlinkAreasFrom(glyphs, lines, 1, <<>>)
    /\ lb' = [pc |-> "areas"]
    /\ UNCHANGED <<s, lenticular, tok, glyphs, orig, lines, break_tailor>>

----------------------------------------------------------------------------
(* The placed and timed lines hyperlink_areas is given.  A glyph's x is    *)
(* below 0 where align_and_justify moved a line wider than the target      *)
(* width to the left (lines 1123-1133), or place_horizontal started left   *)
(* of 0.                                                                   *)

HyperlinkIds == {0, 5, 7}
GlyphXs == {0 - 3, 0, 2}

HyperlinkKinds ==
    [hyperlink : HyperlinkIds, x : GlyphXs, time : {Seconds(1), Seconds(2)}]

(* the ids of the example, on glyphs placed left to right on one line *)
ExampleIds == <<0, 0, 5, 5, 5, 0, 7>>

ExampleLine ==
    [i \in DOMAIN ExampleIds |-> PlacedGlyph(RUBY_NONE, Seconds(i), ExampleIds[i], 2 * i, 2)]

InitHyperlink ==
    /\ s = <<>>
    /\ lenticular = FALSE
    /\ tok = TokIdle
    /\ \/ \E n \in 0..MaxTimed : \E k \in [1..n -> HyperlinkKinds] :
             /\ glyphs = [i \in 1..n |->
                   PlacedGlyph(RUBY_NONE, k[i].time, k[i].hyperlink, k[i].x, 1)]
             /\ \E a \in 0..n : \E b \in a..n : lines = LinesCutAt(n, a, b)
       \/ /\ glyphs = ExampleLine
          /\ lines = <<Line(1, 1, 1, Slice(1, Len(ExampleLine)))>>
    /\ orig = glyphs
    /\ lb = [pc |-> "placed"]
    /\ out = <<>>
    /\ break_tailor = <<>>

NextHyperlink == HyperlinkAreas

SpecHyperlink == InitHyperlink /\ [][NextHyperlink]_vars

(* the glyph at place p of line k *)
GlyphAt(k, p) == glyphs[lines[k].glyphs[p]]

(* a run starts at place p of line k *)
RunStart(k, p) ==
    /\ GlyphAt(k, p).hyperlink # 0
    /\ p = 1 \/ GlyphAt(k, p - 1).hyperlink # GlyphAt(k, p).hyperlink

(* the last place of the run that starts at place p of line k *)
RunEnd(k, p) ==
    Max({q \in p..Len(lines[k].glyphs) :
            \A r \in p..q : GlyphAt(k, r).hyperlink = GlyphAt(k, p).hyperlink})

(* the tuple claimed for the run at places p..q of line k *)
RunArea(k, p, q) ==
    LET minx == Min({GlyphAt(k, r).x : r \in p..q})
        maxx == Max({GlyphAt(k, r).x + GlyphAt(k, r).width : r \in p..q})
    IN  <<GlyphAt(k, p).hyperlink, minx, lines[k].y, maxx - minx,
          lines[k].height, Min({GlyphAt(k, r).time : r \in p..q})>>

RECURSIVE RunAreasFrom(_, _)
(* the tuples claimed for the runs from place p of line k on *)
RunAreasFrom(k, p) ==
    IF k > Len(lines) THEN <<>>
    ELSE IF p > Len(lines[k].glyphs) THEN RunAreasFrom(k + 1, 1)
    ELSE IF RunStart(k, p)
    THEN <<RunArea(k, p, RunEnd(k, p))>> \o RunAreasFrom(k, p + 1)
    ELSE RunAreasFrom(k, p + 1)

(* C14: hyperlink_areas returns, line by line and in glyph order, one      *)
(* tuple for each maximal run of glyphs of one line with the same non-zero *)
(* hyperlink id: the id, the least x of the run, the line's y, the         *)
(* greatest x + width of the run less that least x, the line's height and  *)
(* the least time of the run.                                              *)
C14_AreaPerRun ==
    lb.pc = "areas" => out = RunAreasFrom(1, 1)

----------------------------------------------------------------------------
(* place_vertical.  The frame lb holds the locals; pos and sol count from  *)
(* 1, and g is the index of the Glyph the local g refers to.               *)

MaxPlaced == 3

(* Glyph: the fields place_vertical reads or writes *)
ShapedGlyph(sp, rb, ascent, line_spacing) ==
    [split |-> sp, ruby |-> rb, ascent |-> ascent,
     line_spacing |-> line_spacing, y |-> 0]

(* lines 747-753 and 775-779: ruby text is not placed here *)
IsRubyText(g) == g.ruby = RUBY_TOP \/ g.ruby = RUBY_ALT

(* lines 744-762 and 772-781: the y and ascent of the glyphs sol..pos-1 *)
PlaceLine(gl, sol, pos, y, ascent, has_ruby, ruby_line_leading) ==
    [i \in DOMAIN gl |->
        IF i < sol \/ i >= pos \/ IsRubyText(gl[i])
        THEN gl[i]
        ELSE LET up == IF has_ruby THEN ruby_line_leading ELSE 0
             IN  IF gl[i].ascent # 0
                 THEN [gl[i] EXCEPT !.y = y + ascent + up]
                 ELSE [gl[i] EXCEPT !.y = y + up, !.ascent = ascent]]

EndLineAlways(g) == TRUE
(* line 738 *)
EndLine(g) == g.split # SPLIT_NONE

PlaceVerticalReturnLed(rv, y, leading) ==
    [lines |-> [rv EXCEPT ![Len(rv)].eop = TRUE], y |-> y]

(* lines 815-816 *)
PlaceVerticalReturn(rv, y, leading) ==
    [lines |-> [rv EXCEPT ![Len(rv)].eop = TRUE], y |-> y - leading]

PlaceVerticalEnter ==
    /\ lb.pc = "shaped"
    /\ \E spacing \in {0, 1} : \E leading \in {0, 1} : \E ruby_line_leading \in {2} :
          IF glyphs = <<>>
          THEN /\ lb' = [pc |-> "placed", y0 |-> lb.y]
               /\ out' = lb.y
          ELSE /\ lb' = [pc |-> "vertical", y0 |-> lb.y,
                         pos |-> 1, sol |-> 1, g |-> None,
                         ascent |-> 0, line_spacing |-> 0, y |-> lb.y + leading,
                         spacing |-> spacing, leading |-> leading,
                         ruby_line_leading |-> ruby_line_leading]
               /\ out' = out
    /\ lines' = <<>>
    /\ UNCHANGED <<s, lenticular, tok, glyphs, orig, break_tailor>>

(* one turn of the while loop of line 732 *)
PlaceVerticalStep ==
    /\ lb.pc = "vertical"
    /\ LET len_glyphs == Len(glyphs)
           at_end == lb.pos > len_glyphs
           g == IF at_end THEN lb.g ELSE lb.pos
           end_line == at_end \/ EndLine(glyphs[g])
           has_ruby == \E i \in lb.sol..(lb.pos - 1) : IsRubyText(glyphs[i])
           y1 == IF has_ruby THEN lb.y + lb.ruby_line_leading ELSE lb.y
           line_leading ==
               IF has_ruby THEN lb.leading + lb.ruby_line_leading ELSE lb.leading
           l == Line(y1 - line_leading, y1 + lb.ascent,
                     line_leading + lb.line_spacing + lb.spacing,
                     Slice(lb.sol, lb.pos - 1))
           y2 == y1 + lb.line_spacing + lb.spacing + lb.leading
           (* the locals after the end_line block, when it ran *)
           f == IF end_line
                THEN [lb EXCEPT !.g = g, !.y = y2, !.sol = lb.pos,
                                !.ascent = 0, !.line_spacing = 0]
                ELSE [lb EXCEPT !.g = g]
           gl == IF end_line
                 THEN PlaceLine(glyphs, lb.sol, lb.pos, lb.y, lb.ascent,
                                has_ruby, lb.ruby_line_leading)
                 ELSE glyphs
           rv == IF end_line THEN Append(lines, l) ELSE lines
           skip == end_line /\ glyphs[g].split = SPLIT_INSTEAD
           pos1 == IF skip THEN lb.pos + 1 ELSE lb.pos
           break == pos1 > len_glyphs
       IN  /\ glyphs' = gl
           /\ IF break
              THEN LET r == PlaceVerticalReturn(rv, f.y, lb.leading)
                   IN  /\ lines' = r.lines
                       /\ out' = r.y
                       /\ lb' = [pc |-> "placed", y0 |-> lb.y0]
              ELSE /\ lines' = rv
                   /\ out' = out
                   /\ lb' = IF skip
                            THEN [f EXCEPT !.sol = lb.pos + 1, !.pos = lb.pos + 1]
                            ELSE [f EXCEPT
                                    !.ascent = IF gl[g].ascent > f.ascent
                                               THEN gl[g].ascent ELSE f.ascent,
                                    !.line_spacing =
                                        IF gl[g].line_spacing > f.line_spacing
                                        THEN gl[g].line_spacing ELSE f.line_spacing,
                                    !.pos = lb.pos + 1]
    /\ UNCHANGED <<s, lenticular, tok, orig, break_tailor>>

----------------------------------------------------------------------------
(* The glyph arrays place_vertical is given: place_horizontal has turned   *)
(* SPLIT_IGNORE into SPLIT_NONE (lines 670-671), and ruby text carries     *)
(* SPLIT_NONE.  A displayable has ascent 0.                                *)

Ascents == {0, 1, 2}

ShapedKinds ==
    {ShapedGlyph(sp, RUBY_NONE, a, a + 1) :
        sp \in {SPLIT_NONE, SPLIT_BEFORE, SPLIT_INSTEAD}, a \in Ascents}
    \cup {ShapedGlyph(SPLIT_NONE, r, a, a + 1) :
        r \in {RUBY_TOP, RUBY_ALT}, a \in Ascents}

(* y, the top of the block *)
StartYs == {0, 3}

InitVertical ==
    /\ s = <<>>
    /\ lenticular = FALSE
    /\ tok = TokIdle
    /\ \E n \in 0..MaxPlaced : glyphs \in [1..n -> ShapedKinds]
    /\ orig = glyphs
    /\ \E y \in StartYs : lb = [pc |-> "shaped", y |-> y]
    /\ out = <<>>
    /\ lines = <<>>
    /\ break_tailor = <<>>

NextVertical ==
    \/ PlaceVerticalEnter
    \/ PlaceVerticalStep

SpecVertical == InitVertical /\ [][NextVertical]_vars

RECURSIVE GlyphsOfLines(_)
(* the glyph lists of the lines ll, one after the other *)
GlyphsOfLines(ll) ==
    IF ll = <<>> THEN <<>> ELSE Head(ll).glyphs \o GlyphsOfLines(Tail(ll))

(* glyphs i and j are in one line *)
SameLine(i, j) ==
    \E k \in DOMAIN lines : {i, j} \subseteq Range(lines[k].glyphs)

(* C15: place_vertical on a non-empty array with splits none, before or    *)
(* instead returns lines whose glyph lists, one after the other, are the   *)
(* array in order without its split-instead glyphs; each list is a run of  *)
(* neighbours with no split after its first glyph, and a glyph with split  *)
(* none is in the line of the glyph before it unless that one is a         *)
(* split-instead glyph.                                                    *)
C15_LinesPartition ==
    (lb.pc = "placed" /\ glyphs # <<>>) =>
        /\ GlyphsOfLines(lines)
              = SelectSeq(Indices(glyphs), LAMBDA i : glyphs[i].split # SPLIT_INSTEAD)
        /\ \A k \in DOMAIN lines : \A p \in 2..Len(lines[k].glyphs) :
              /\ lines[k].glyphs[p] = lines[k].glyphs[p - 1] + 1
              /\ glyphs[lines[k].glyphs[p]].split = SPLIT_NONE
        /\ \A i \in 2..Len(glyphs) :
              (glyphs[i].split = SPLIT_NONE /\ glyphs[i - 1].split # SPLIT_INSTEAD)
                  => SameLine(i - 1, i)

(* a glyph, a split-instead glyph and a split-before glyph: three lines,   *)
(* the second one empty                                                    *)
C15_Witness ==
    /\ lb.pc = "placed"
    /\ Len(lines) = 3
    /\ \E i, j \in DOMAIN glyphs :
          /\ glyphs[i].split = SPLIT_INSTEAD
          /\ glyphs[j].split = SPLIT_BEFORE
          /\ i < j
    /\ lines[1].glyphs # <<>>
    /\ lines[3].glyphs # <<>>

----------------------------------------------------------------------------
(* align_and_justify.  text_align is counted in halves (0, 1/2, 1), and    *)
(* justify_offset in 1/(2 * spaces), so that every float of the code is a  *)
(* whole number of the model.                                              *)

MaxJustified == 4

(* line 108 *)
MAX_WIDTH == 8192

(* line 1095 *)
SPACE == 32

(* the C cast <int> of num / den, den > 0: towards zero *)
ToInt(num, den) ==
    IF num >= 0 THEN num \div den ELSE 0 - ((0 - num) \div den)

(* Glyph: the fields align_and_justify reads or writes *)
InkGlyph(c, rb, x, w) == [character |-> c, ruby |-> rb, x |-> x, width |-> w]

RECURSIVE MeasureFrom(_, _, _, _, _)
(* lines 1084-1098: spaces and max_x of a line, from its p-th glyph on *)
MeasureFrom(gl, refs, p, spaces, max_x) ==
    IF p > Len(refs)
    THEN [spaces |-> spaces, max_x |-> max_x]
    ELSE LET g == gl[refs[p]]
         IN  IF IsRubyText(g)
             THEN MeasureFrom(gl, refs, p + 1, spaces, max_x)
             ELSE MeasureFrom(gl, refs, p + 1,
                      IF g.character = SPACE THEN spaces + 1 ELSE spaces,
                      g.x + g.width)

RECURSIVE JustifyFrom(_, _, _, _, _, _)
(* lines 1109-1120: justify_offset is offset / (2 * spaces), and           *)
(* justify_per_space is slack / spaces                                     *)
JustifyFrom(gl, refs, p, offset, slack, spaces) ==
    IF p > Len(refs)
    THEN gl
    ELSE LET g == gl[refs[p]]
         IN  IF IsRubyText(g)
             THEN JustifyFrom(gl, refs, p + 1, offset, slack, spaces)
             ELSE LET o == IF g.character = SPACE THEN offset + 2 * slack ELSE offset
                  IN  JustifyFrom([gl EXCEPT ![refs[p]].x = @ + ToInt(o, 2 * spaces)],
                                  refs, p + 1, o, slack, spaces)

(* lines 1123-1133: text_align is halves / 2 *)
AlignLine(gl, refs, slack, halves) ==
    [i \in DOMAIN gl |->
        IF i \in Range(refs) /\ ~IsRubyText(gl[i])
        THEN [gl[i] EXCEPT !.x = @ + ToInt(slack * halves, 2)]
        ELSE gl[i]]

RECURSIVE AlignAndJustifyFrom(_, _, _, _, _, _)
(* lines 1082-1133: the loop over the lines, from line k on *)
AlignAndJustifyFrom(gl, ll, k, width, halves, justify) ==
    IF k > Len(ll)
    THEN gl
    ELSE LET l == ll[k]
             m == MeasureFrom(gl, l.glyphs, 1, 0, 0)
             gl1 == IF m.max_x >= MAX_WIDTH
                    THEN gl
                    ELSE IF justify /\ m.spaces # 0 /\ ~l.eop
                    THEN JustifyFrom(gl, l.glyphs, 1, m.spaces, width - m.max_x, m.spaces)
                    ELSE AlignLine(gl, l.glyphs, width - m.max_x, halves)
         IN  AlignAndJustifyFrom(gl1, ll, k + 1, width, halves, justify)

AlignAndJustify ==
    /\ lb.pc = "placed"
    /\ \E width \in {2, 4} : \E halves \in {0, 1, 2} : \E justify \in BOOLEAN :
          /\ glyphs' = IF ~justify /\ halves = 0
                       THEN glyphs
                       ELSE AlignAndJustifyFrom(glyphs, lines, 1, width, halves, justify)
          /\ lb' = [pc |-> "aligned", width |-> width, halves |-> halves,
                    justify |-> justify]
    /\ UNCHANGED <<s, lenticular, tok, orig, out, lines, break_tailor>>

----------------------------------------------------------------------------
(* The lines align_and_justify is given: two lines, the last one the end   *)
(* of the paragraph (line 815), each placed from left to right from one    *)
(* start (place_horizontal, lines 680-693); ruby text sits over the cursor *)
(* and takes no room.                                                      *)

LETTER == 97

InkKinds == [character : {SPACE, LETTER}, ruby : {RUBY_NONE, RUBY_TOP, RUBY_ALT}]

(* the room glyph k[i] takes on its line *)
Room(k, i) == IF k[i].ruby = RUBY_NONE THEN 1 ELSE 0

RECURSIVE RoomBefore(_, _, _)
(* the room the glyphs k[from..i-1] take *)
RoomBefore(k, from, i) ==
    IF i <= from THEN 0 ELSE RoomBefore(k, from, i - 1) + Room(k, i - 1)

(* the array of kinds k, cut into two lines after glyph a, placed from x0 *)
InkArray(k, a, x0) ==
    [i \in DOMAIN k |->
        InkGlyph(k[i].character, k[i].ruby,
                 x0 + RoomBefore(k, IF i <= a THEN 1 ELSE a + 1, i), 1)]

InitJustify ==
    /\ s = <<>>
    /\ lenticular = FALSE
    /\ tok = TokIdle
    /\ \E n \in 1..MaxJustified : \E k \in [1..n -> InkKinds] : \E a \in 0..n :
          \E x0 \in {0, MAX_WIDTH - 2} :
             /\ glyphs = InkArray(k, a, x0)
             /\ lines = <<Line(0, 1, 2, Slice(1, a)),
                          [Line(2, 3, 2, Slice(a + 1, n)) EXCEPT !.eop = TRUE]>>
    /\ orig = glyphs
    /\ lb = [pc |-> "placed"]
    /\ out = <<>>
    /\ break_tailor = <<>>

NextJustify == AlignAndJustify

SpecJustify == InitJustify /\ [][NextJustify]_vars

(* the places of line k that hold a space *)
SpacePlaces(k) ==
    {p \in DOMAIN lines[k].glyphs : orig[lines[k].glyphs[p]].character = SPACE}

(* the ink width of line k before the pass, ruby text left out *)
InkWidth(k) ==
    Max({0} \cup {orig[i].x + orig[i].width :
                     i \in {j \in Range(lines[k].glyphs) : ~IsRubyText(orig[j])}})

(* how far the pass moved glyph i *)
Moved(i) == glyphs[i].x - orig[i].x

(* line k is justified and holds one space, which is not ruby text *)
JustifiedOneSpace(k) ==
    /\ lb.pc = "aligned"
    /\ lb.justify
    /\ ~lines[k].eop
    /\ Cardinality(SpacePlaces(k)) = 1
    /\ \A p \in SpacePlaces(k) : ~IsRubyText(orig[lines[k].glyphs[p]])
    /\ InkWidth(k) < MAX_WIDTH

(* C12: align_and_justify with justify, on a line that is not the last of  *)
(* its paragraph and holds exactly one space, moves every glyph after the  *)
(* space by the slack S = width - ink width and leaves the x of every      *)
(* glyph before the space as it was, for S above, at or below 0 (ruby text *)
(* aside, which the pass skips).                                           *)
C12_MovedBySlack ==
    \A k \in DOMAIN lines :
        JustifiedOneSpace(k) =>
            \A q \in SpacePlaces(k) : \A p \in DOMAIN lines[k].glyphs :
                LET i == lines[k].glyphs[p]
                IN  ~IsRubyText(orig[i]) =>
                        /\ p > q => Moved(i) = lb.width - InkWidth(k)
                        /\ p < q => Moved(i) = 0

----------------------------------------------------------------------------
(* annotate_western *)

MaxAnnotated == 2

(* line 308 *)
ZERO_WIDTH_SPACE == 8203

(* Glyph: the fields the classifiers read or write *)
CodedGlyph(c, sp, rb) == [character |-> c, split |-> sp, ruby |-> rb]

SkipsRubyText(g) == IsRubyText(g)
(* line 303: "Don't split ruby." *)
SkipsRuby(g) == g.ruby # RUBY_NONE

(* lines 303-311: the body of the loop *)
Western(g) ==
    IF SkipsRuby(g) THEN g
    ELSE IF g.character = 0 THEN [g EXCEPT !.split = SPLIT_BEFORE]
    ELSE IF g.character = SPACE \/ g.character = ZERO_WIDTH_SPACE
    THEN [g EXCEPT !.split = SPLIT_INSTEAD]
    ELSE [g EXCEPT !.split = SPLIT_NONE]

AnnotateWestern ==
    /\ lb.pc \in {"shaped", "western"}
    /\ lb.runs < 2
    /\ glyphs' = [i \in DOMAIN glyphs |-> Western(glyphs[i])]
    /\ lb' = [pc |-> "western", runs |-> lb.runs + 1, before |-> glyphs]
    /\ UNCHANGED <<s, lenticular, tok, orig, out, lines, break_tailor>>

(* The arrays annotate_western is given: any code point, any ruby role,    *)
(* and the split an earlier classifier left.                               *)
WesternKinds ==
    {CodedGlyph(c, sp, rb) :
        c \in {0, SPACE, ZERO_WIDTH_SPACE, LETTER},
        sp \in {SPLIT_NONE, SPLIT_BEFORE},
        rb \in {RUBY_NONE, RUBY_BOTTOM, RUBY_TOP, RUBY_ALT}}

InitWestern ==
    /\ s = <<>>
    /\ lenticular = FALSE
    /\ tok = TokIdle
    /\ \E n \in 0..MaxAnnotated : glyphs \in [1..n -> WesternKinds]
    /\ orig = glyphs
    /\ lb = [pc |-> "shaped", runs |-> 0]
    /\ out = <<>>
    /\ lines = <<>>
    /\ break_tailor = <<>>

NextWestern == AnnotateWestern

SpecWestern == InitWestern /\ [][NextWestern]_vars

(* C19: annotate_western gives a glyph with no ruby role split-before for  *)
(* code point 0, split-instead for 0x20 and 0x200b and split none for any  *)
(* other, and leaves the glyphs with a ruby role and every other field as  *)
(* they were; a second run on the array changes nothing.                   *)
C19_WesternByCodePoint ==
    lb.pc = "western" =>
        /\ Len(glyphs) = Len(orig)
        /\ \A i \in DOMAIN glyphs :
              /\ glyphs[i].character = orig[i].character
              /\ glyphs[i].ruby = orig[i].ruby
              /\ IF orig[i].ruby # RUBY_NONE
                 THEN glyphs[i].split = orig[i].split
                 ELSE glyphs[i].split =
                        CASE orig[i].character = 0 -> SPLIT_BEFORE
                          [] orig[i].character \in {32, 8203} -> SPLIT_INSTEAD
                          [] OTHER -> SPLIT_NONE
        /\ lb.runs = 2 => glyphs = lb.before

(* the second run, over an array that holds a ruby-bottom glyph with a     *)
(* split and a space                                                       *)
C19_Witness ==
    /\ lb.pc = "western"
    /\ lb.runs = 2
    /\ \E i, j \in DOMAIN glyphs :
          /\ glyphs[i].ruby = RUBY_BOTTOM /\ glyphs[i].split = SPLIT_BEFORE
          /\ glyphs[j].ruby = RUBY_NONE /\ glyphs[j].split = SPLIT_INSTEAD

----------------------------------------------------------------------------
(* Break classes and tables.  linebreak.pxi, which textsupport.pyx         *)
(* includes for them, is modelled after the classes and the pair table of  *)
(* UAX #14, which the docstring of language_tailor names: the classes of   *)
(* the pair table come before BC_PITCH, the others after it.               *)

BC_OP == "OP"
BC_CL == "CL"
BC_CP == "CP"
BC_GL == "GL"
BC_NS == "NS"
BC_AL == "AL"
BC_ID == "ID"
BC_CM == "CM"
BC_WJ == "WJ"
BC_H2 == "H2"
BC_H3 == "H3"
BC_JL == "JL"
BC_JV == "JV"
BC_JT == "JT"
BC_SP == "SP"
BC_CB == "CB"
BC_AI == "AI"
BC_XX == "XX"

(* the classes c with c < BC_PITCH *)
BelowPitch ==
    {BC_OP, BC_CL, BC_CP, BC_GL, BC_NS, BC_AL, BC_ID, BC_CM, BC_WJ,
     BC_H2, BC_H3, BC_JL, BC_JV, BC_JT}

(* CLASSES: class name -> class *)
CLASSES == BelowPitch \cup {BC_SP, BC_CB, BC_AI, BC_XX}

(* the code points of the model *)
LATIN_A == 97
LEFT_PAREN == 40
IDEOGRAPH == 19968
SMALL_KANA == 12353
IDEOGRAPHIC_STOP == 12290
COMBINING_ACUTE == 769
OBJECT_REPLACEMENT == 65532
SECTION_SIGN == 167

BasicPlane ==
    {0, SPACE, LATIN_A, LEFT_PAREN, IDEOGRAPH, SMALL_KANA, IDEOGRAPHIC_STOP,
     COMBINING_ACUTE, OBJECT_REPLACEMENT, SECTION_SIGN}

(* break_western, break_cjk_loose, break_cjk_normal, break_cjk_strict: the *)
(* class of code point c under profile cjk; a small kana is a non-starter  *)
(* under the strict profile and an ideograph under the others              *)
BreakClasses(cjk, c) ==
    CASE c = SPACE -> BC_SP
      [] c = LATIN_A -> BC_AL
      [] c = LEFT_PAREN -> BC_OP
      [] c = IDEOGRAPH -> BC_ID
      [] c = SMALL_KANA -> IF cjk = 3 THEN BC_NS ELSE BC_ID
      [] c = IDEOGRAPHIC_STOP -> BC_CL
      [] c = COMBINING_ACUTE -> BC_CM
      [] c = OBJECT_REPLACEMENT -> BC_CB
      [] c = SECTION_SIGN -> BC_AI
      [] OTHER -> BC_CM

(* break_rules[old_type * BC_PITCH + new_type]: "^" prohibited, "%"        *)
(* indirect, "_" direct; rows are old_type                                 *)
BreakRuleRows ==
    [OP |-> [OP |-> "^", CL |-> "^", GL |-> "^", NS |-> "^", AL |-> "^", ID |-> "^", WJ |-> "^"],
     CL |-> [OP |-> "_", CL |-> "^", GL |-> "%", NS |-> "^", AL |-> "_", ID |-> "_", WJ |-> "^"],
     GL |-> [OP |-> "%", CL |-> "^", GL |-> "%", NS |-> "%", AL |-> "%", ID |-> "%", WJ |-> "^"],
     NS |-> [OP |-> "_", CL |-> "^", GL |-> "%", NS |-> "%", AL |-> "_", ID |-> "_", WJ |-> "^"],
     AL |-> [OP |-> "%", CL |-> "^", GL |-> "%", NS |-> "%", AL |-> "%", ID |-> "_", WJ |-> "^"],
     ID |-> [OP |-> "_", CL |-> "^", GL |-> "%", NS |-> "%", AL |-> "_", ID |-> "_", WJ |-> "^"],
     WJ |-> [OP |-> "%", CL |-> "^", GL |-> "%", NS |-> "%", AL |-> "%", ID |-> "%", WJ |-> "^"]]

RuledClasses == DOMAIN BreakRuleRows

BreakRules(old_type, new_type) == BreakRuleRows[old_type][new_type]

----------------------------------------------------------------------------
(* language_tailor *)

(* line 357: CLASSES.get(cls, BC_XX) *)
Ncls(cls) == IF cls \in CLASSES THEN cls ELSE BC_XX

(* line 334: cdef char break_tailor[65536] *)
TABLE_SIZE == 65536

SUPPLEMENTARY_IDEOGRAPH == 131072

(* line 360: the index ord(c) lies in the C array *)
InTable(c) == c \in 0..(TABLE_SIZE - 1)

(* the characters of chars the loop of line 359 reaches if the first write *)
(* outside the array stops the process                                     *)
UpToFirstOutside(chars) ==
    LET outside == {i \in DOMAIN chars : ~InTable(chars[i])}
    IN  IF outside = {} THEN chars ELSE SubSeq(chars, 1, Min(outside))

(* lines 359-360 on the characters chars: the table after the writes; a    *)
(* write outside the array does not change the table                       *)
Tailor(tailor, chars, ncls) ==
    [c \in DOMAIN tailor |-> IF c \in Range(chars) THEN ncls ELSE tailor[c]]

TailorStrings ==
    {<<IDEOGRAPH>>, <<LATIN_A, SMALL_KANA>>, <<LATIN_A, SUPPLEMENTARY_IDEOGRAPH>>}

(* lb.named is history: the class name of the last call that named c;     *)
(* lb.written is history: the indices line 360 has written at. The array   *)
(* is a C array and the write is not bounds-checked: a write outside it is *)
(* undefined behaviour, which either goes through on the memory behind the *)
(* array or stops the process.                                             *)
LanguageTailor ==
    /\ lb.pc = "shaped"
    /\ \E chars \in TailorStrings : \E cls \in {"AL", "ID", "XX", "ZZ"} :
          \/ /\ break_tailor' = Tailor(break_tailor, chars, Ncls(cls))
             /\ lb' = [lb EXCEPT
                          !.named = [c \in DOMAIN @ |->
                                        IF c \in Range(chars) THEN cls ELSE @[c]],
                          !.written = @ \cup Range(chars)]
          \/ /\ \E i \in DOMAIN chars : ~InTable(chars[i])
             /\ LET reached == UpToFirstOutside(chars)
                IN  /\ break_tailor' = Tailor(break_tailor, reached, Ncls(cls))
                    /\ lb' = [lb EXCEPT
                                 !.pc = "crashed",
                                 !.named = [c \in DOMAIN @ |->
                                               IF c \in Range(reached)
                                               THEN cls ELSE @[c]],
                                 !.written = @ \cup Range(reached)]
    /\ UNCHANGED <<s, lenticular, tok, glyphs, orig, out, lines>>

----------------------------------------------------------------------------
(* annotate_unicode: the classes *)

(* lines 389-398 *)
Profile(cjk) == IF cjk \in 0..3 THEN cjk ELSE 0

(* lines 417-425 *)
Demoted(new_type, no_ideographs) ==
    IF no_ideographs /\ new_type \in {BC_H2, BC_H3, BC_ID, BC_JL, BC_JV, BC_JT}
    THEN BC_AL ELSE new_type

(* lines 428-429 *)
Normalized(new_type) ==
    IF new_type \notin BelowPitch /\ new_type # BC_SP /\ new_type # BC_CB
    THEN BC_AL ELSE new_type

TailoredNever(tailor_type, new_type) == new_type
(* lines 431-432 *)
Tailored(tailor_type, new_type) ==
    IF tailor_type # BC_XX THEN tailor_type ELSE new_type

(* lines 405-432: new_type for code point c *)
NewType(c, no_ideographs, cjk, tailor) ==
    IF 131072 <= c /\ c <= 196607
    THEN Tailored(BC_XX, Normalized(Demoted(BC_ID, no_ideographs)))
    ELSE IF c > 65535
    THEN Tailored(BC_XX, Normalized(Demoted(BC_AL, no_ideographs)))
    ELSE Tailored(tailor[c],
                  Normalized(Demoted(BreakClasses(Profile(cjk), c), no_ideographs)))

----------------------------------------------------------------------------
(* annotate_unicode: the pair loop, lines 400-493.  pos and space_pos      *)
(* count from 1; space_pos = None is the 0 of the code.                    *)

SetSplit(gl, i, sp) == [gl EXCEPT ![i].split = sp]

RECURSIVE PairsFrom(_, _, _, _, _, _, _, _)
PairsFrom(gl, pos, old_type, space_pos, types, no_ideographs, cjk, tailor) ==
    IF pos > Len(gl)
    THEN [glyphs |-> gl, types |-> types]
    ELSE
    LET new_type == NewType(gl[pos].character, no_ideographs, cjk, tailor)
        types1 == Append(types, new_type)
        marked == IF space_pos # None THEN SetSplit(gl, space_pos, SPLIT_INSTEAD) ELSE gl
    IN  IF new_type = BC_SP
        THEN PairsFrom(SetSplit(gl, pos, SPLIT_NONE), pos + 1, old_type, pos,
                       types1, no_ideographs, cjk, tailor)
        ELSE IF new_type = BC_CM
        THEN PairsFrom(SetSplit(gl, pos, SPLIT_NONE), pos + 1, old_type, space_pos,
                       types1, no_ideographs, cjk, tailor)
        ELSE IF new_type = BC_CB
        THEN PairsFrom(SetSplit(gl, pos, IF old_type = BC_WJ \/ old_type = BC_GL
                                         THEN SPLIT_NONE ELSE SPLIT_BEFORE),
                       pos + 1, old_type, space_pos, types1, no_ideographs, cjk, tailor)
        ELSE IF old_type = BC_CB
        THEN PairsFrom(SetSplit(gl, pos, IF new_type = BC_WJ \/ new_type = BC_GL
                                         THEN SPLIT_NONE ELSE SPLIT_BEFORE),
                       pos + 1, old_type, space_pos, types1, no_ideographs, cjk, tailor)
        ELSE IF new_type = BC_CL \/ new_type = BC_CP
        THEN PairsFrom(SetSplit(gl, pos, SPLIT_IGNORE), pos + 1, old_type, space_pos,
                       types1, no_ideographs, cjk, tailor)
        ELSE
        LET bc == BreakRules(old_type, new_type)
            gl1 == IF bc = "%"
                   THEN SetSplit(marked, pos, SPLIT_NONE)
                   ELSE IF bc = "_"
                   THEN IF space_pos # None
                        THEN SetSplit(marked, pos, SPLIT_NONE)
                        ELSE SetSplit(gl, pos, SPLIT_BEFORE)
                   ELSE SetSplit(gl, pos, SPLIT_NONE)
        IN  PairsFrom(gl1, pos + 1, new_type, None, types1, no_ideographs, cjk, tailor)

AnnotateUnicodePairs ==
    /\ lb.pc = "shaped"
    /\ \E no_ideographs \in BOOLEAN : \E cjk \in {0, 3} :
          IF glyphs = <<>>
          THEN /\ glyphs' = glyphs
               /\ lb' = [lb EXCEPT !.pc = "unicode"]
          ELSE LET r == PairsFrom(glyphs, 2, BC_WJ, None, <<None>>,
                                  no_ideographs, cjk, break_tailor)
               IN  /\ glyphs' = r.glyphs
                   /\ lb' = [lb EXCEPT !.pc = "paired", !.types = r.types,
                                       !.no_ideographs = no_ideographs, !.cjk = cjk]
    /\ UNCHANGED <<s, lenticular, tok, orig, out, lines, break_tailor>>

----------------------------------------------------------------------------
(* annotate_unicode: the ruby loop, lines 495-510 *)

FollowsRubyTop(g, old_g) == g.ruby = RUBY_BOTTOM /\ old_g.ruby = RUBY_TOP
(* line 507 *)
FollowsRubyBottom(g, old_g) == g.ruby = RUBY_BOTTOM /\ old_g.ruby = RUBY_BOTTOM

(* lines 501-508: the body of the loop *)
RubySplit(g, old_g) ==
    LET g1 == IF g.character = 0 THEN [g EXCEPT !.split = SPLIT_BEFORE] ELSE g
    IN  IF g1.ruby = RUBY_TOP \/ g1.ruby = RUBY_ALT
        THEN [g1 EXCEPT !.split = SPLIT_NONE]
        ELSE IF FollowsRubyBottom(g1, old_g)
        THEN [g1 EXCEPT !.split = SPLIT_NONE]
        ELSE g1

AnnotateUnicodeRuby ==
    /\ lb.pc = "paired"
    /\ LET gl == SetSplit(glyphs, 1, SPLIT_NONE)
       IN  glyphs' = [i \in DOMAIN gl |->
                        RubySplit(gl[i], IF i = 1 THEN gl[1] ELSE gl[i - 1])]
    /\ lb' = [lb EXCEPT !.pc = "unicode", !.paired = glyphs]
    /\ UNCHANGED <<s, lenticular, tok, orig, out, lines, break_tailor>>

----------------------------------------------------------------------------
(* The arrays annotate_unicode is given: characters of every class with no *)
(* ruby role, and characters with a ruby role and the split an earlier     *)
(* classifier left; break_tailor is as the module leaves it (lines         *)
(* 336-337) or as a call of language_tailor left it.                       *)

MaxPairs == 4
MaxRuby == 3

PairChars ==
    {SPACE, LATIN_A, LEFT_PAREN, IDEOGRAPH, IDEOGRAPHIC_STOP, COMBINING_ACUTE,
     OBJECT_REPLACEMENT}

RubyKinds ==
    [character : {0, LATIN_A, IDEOGRAPH},
     ruby : {RUBY_NONE, RUBY_BOTTOM, RUBY_TOP, RUBY_ALT}]

(* lines 336-337 *)
Untailored == [c \in BasicPlane |-> BC_XX]

(* no call has named a character yet *)
Unnamed == [c \in BasicPlane |-> "never"]

UnicodeIdle ==
    [pc |-> "shaped", named |-> Unnamed, written |-> {}, types |-> <<>>,
     no_ideographs |-> FALSE, cjk |-> 0, paired |-> <<>>]

InitUnicode ==
    /\ s = <<>>
    /\ lenticular = FALSE
    /\ tok = TokIdle
    /\ \/ \E n \in 0..MaxPairs : \E k \in [1..n -> PairChars] :
             glyphs = [i \in 1..n |-> CodedGlyph(k[i], SPLIT_NONE, RUBY_NONE)]
       \/ \E n \in 1..MaxRuby : \E k \in [1..n -> RubyKinds] :
          \E sp \in {SPLIT_NONE, SPLIT_INSTEAD} :
             glyphs = [i \in 1..n |-> CodedGlyph(k[i].character, sp, k[i].ruby)]
    /\ orig = glyphs
    /\ lb = UnicodeIdle
    /\ out = <<>>
    /\ lines = <<>>
    /\ break_tailor \in {Untailored, [Untailored EXCEPT ![LATIN_A] = BC_ID]}

NextUnicode ==
    \/ AnnotateUnicodePairs
    \/ AnnotateUnicodeRuby

SpecUnicode == InitUnicode /\ [][NextUnicode]_vars

(* The arrays annotate_unicode is given after language_tailor. *)

MaxTailored == 3

TailorChars ==
    {LATIN_A, IDEOGRAPH, SMALL_KANA, SECTION_SIGN, SUPPLEMENTARY_IDEOGRAPH}

InitTailor ==
    /\ s = <<>>
    /\ lenticular = FALSE
    /\ tok = TokIdle
    /\ \E n \in 0..MaxTailored : \E k \in [1..n -> TailorChars] :
          glyphs = [i \in 1..n |-> CodedGlyph(k[i], SPLIT_NONE, RUBY_NONE)]
    /\ orig = glyphs
    /\ lb = UnicodeIdle
    /\ out = <<>>
    /\ lines = <<>>
    /\ break_tailor = Untailored

NextTailor ==
    \/ LanguageTailor
    \/ AnnotateUnicodePairs
    \/ AnnotateUnicodeRuby

SpecTailor == InitTailor /\ [][NextTailor]_vars

(* the class annotate_unicode gives the character of glyph i *)
ClassAt(i) == NewType(orig[i].character, lb.no_ideographs, lb.cjk, break_tailor)

(* the glyphs before glyph i that are neither spaces nor combining marks *)
ClassedBefore(i) == {j \in 1..(i - 1) : ClassAt(j) \notin {BC_SP, BC_CM}}

(* the spaces between glyph j and glyph i *)
SpacesBetween(j, i) == {k \in (j + 1)..(i - 1) : ClassAt(k) = BC_SP}

(* the pair rule of glyph j and glyph i decided the splits of glyph i and  *)
(* of the spaces between them                                              *)
PairRuleDecides(j, i) ==
    LET bc == BreakRules(ClassAt(j), ClassAt(i))
        sp == SpacesBetween(j, i)
    IN  CASE bc = "%" ->
                /\ glyphs[i].split = SPLIT_NONE
                /\ sp # {} => glyphs[Max(sp)].split = SPLIT_INSTEAD
          [] bc = "_" ->
                IF sp # {}
                THEN /\ glyphs[Max(sp)].split = SPLIT_INSTEAD
                     /\ glyphs[i].split = SPLIT_NONE
                ELSE glyphs[i].split = SPLIT_BEFORE
          [] OTHER ->
                /\ glyphs[i].split = SPLIT_NONE
                /\ \A k \in sp : glyphs[k].split # SPLIT_INSTEAD

(* C16: after the pair loop of annotate_unicode, for every glyph at        *)
(* position 1 or later whose class is not space, combining mark,           *)
(* contingent break or closing punctuation, the pair rule between the      *)
(* class of the nearest glyph before it that is neither a space nor a mark *)
(* and its own class decides the split: prohibited, no split and no space  *)
(* marked; indirect, split-instead on the last space between them if there *)
(* is one, no split on the glyph; direct, the same if there is a space,    *)
(* else split-before on the glyph.                                         *)
C16_PairRuleDecides ==
    lb.pc = "paired" =>
        \A i \in 2..Len(glyphs) :
            (/\ ClassAt(i) \notin {BC_SP, BC_CM, BC_CB, BC_CL, BC_CP}
             /\ ClassedBefore(i) # {}
             /\ ClassAt(Max(ClassedBefore(i))) \in RuledClasses)
                => PairRuleDecides(Max(ClassedBefore(i)), i)

(* C17: after annotate_unicode on a non-empty array, every ruby-top and   *)
(* alt-ruby glyph has split none, and so has every ruby-bottom glyph that  *)
(* comes right after a ruby-bottom glyph.                                  *)
C17_NoSplitInRuby ==
    (lb.pc = "unicode" /\ glyphs # <<>>) =>
        \A i \in DOMAIN glyphs :
            /\ glyphs[i].ruby \in {RUBY_TOP, RUBY_ALT} => glyphs[i].split = SPLIT_NONE
            /\ (/\ i > 1
                /\ glyphs[i].ruby = RUBY_BOTTOM
                /\ glyphs[i - 1].ruby = RUBY_BOTTOM)
                  => glyphs[i].split = SPLIT_NONE

(* the ruby loop took the split the pair loop gave an ideograph inside a   *)
(* ruby-bottom run, and the split-before of a ruby-top displayable         *)
C17_Witness ==
    /\ lb.pc = "unicode"
    /\ \E i \in DOMAIN glyphs :
          /\ i > 1
          /\ glyphs[i].ruby = RUBY_BOTTOM
          /\ glyphs[i - 1].ruby = RUBY_BOTTOM
          /\ lb.paired[i].split = SPLIT_BEFORE
    /\ \E i \in DOMAIN glyphs :
          /\ glyphs[i].ruby = RUBY_TOP
          /\ glyphs[i].character = 0

(* the class the tailoring claim gives the basic-plane code point c *)
ClaimedClass(c) ==
    IF lb.named[c] \in CLASSES \ {BC_XX}
    THEN lb.named[c]
    ELSE Normalized(Demoted(BreakClasses(Profile(lb.cjk), c), lb.no_ideographs))

(* C18: after any calls of language_tailor, annotate_unicode gives a       *)
(* basic-plane character the class of the last call that named it, when    *)
(* that is a known class other than XX, whatever the profile and the       *)
(* no_ideographs flag, and the class of the table otherwise.               *)
C18_LastTailoringWins ==
    lb.pc = "paired" =>
        \A i \in 2..Len(glyphs) :
            glyphs[i].character \in BasicPlane =>
                lb.types[i] = ClaimedClass(glyphs[i].character)

(* an ideograph last named with ID and classified with no_ideographs set,  *)
(* and a small kana last named with an unknown class                       *)
C18_Witness ==
    /\ lb.pc = "paired"
    /\ lb.no_ideographs
    /\ \E i, j \in 2..Len(glyphs) :
          /\ glyphs[i].character = IDEOGRAPH
          /\ lb.named[IDEOGRAPH] = "ID"
          /\ lb.types[i] = BC_ID
          /\ glyphs[j].character = SMALL_KANA
          /\ lb.named[SMALL_KANA] = "ZZ"

----------------------------------------------------------------------------
(* linebreak_greedy: the single active split point. *)

GreedyRunning == lb.pc = "scan" \/ GreedyDone

(* the glyphs the loop has passed: all of them once the loop is over *)
Scanned == IF lb.pc = "scan" THEN 1..(lb.pos - 1) ELSE 1..Len(glyphs)

(* the glyphs passed after the last split the loop has committed *)
SinceCommitted == {i \in Scanned : i > lb.committed}

(* the glyphs that came to the loop as split points and were weighed by it *)
ScannedCandidates ==
    {i \in Scanned : /\ IsCandidate(orig[i])
                     /\ orig[i].ruby \notin {RUBY_TOP, RUBY_ALT}}

(* C20: at every step of linebreak_greedy, of the glyphs scanned since the   *)
(* last committed break only the active split point still carries           *)
(* split-before or split-instead, the active split point is the candidate   *)
(* scanned last, every earlier candidate since the committed break has been *)
(* set to split none, and no glyph differs from the glyph handed in except  *)
(* by a split value that became none.                                       *)
C20_OneActiveSplit ==
    GreedyRunning =>
        /\ {i \in SinceCommitted : IsCandidate(glyphs[i])}
               \subseteq ({lb.split_g} \ {None})
        /\ lb.split_g # None => lb.split_g = Max(ScannedCandidates)
        /\ \A i \in SinceCommitted \cap ScannedCandidates :
               i # lb.split_g => glyphs[i].split = SPLIT_NONE
        /\ Len(glyphs) = Len(orig)
        /\ \A i \in 1..Len(glyphs) :
               \/ glyphs[i] = orig[i]
               \/ glyphs[i] = [orig[i] EXCEPT !.split = SPLIT_NONE]

(* a candidate scanned after a committed break has been superseded by a     *)
(* later one, which is now the active split point                           *)
C20_Witness ==
    /\ lb.pc = "scan"
    /\ lb.committed # None
    /\ lb.split_g # None
    /\ \E i \in SinceCommitted :
          /\ i < lb.split_g
          /\ IsCandidate(orig[i])
          /\ glyphs[i].split = SPLIT_NONE

----------------------------------------------------------------------------
(* place_horizontal. The cursor x, maxx, start_x, the indents and the      *)
(* glyphs' width and advance are C floats: they are counted in half        *)
(* pixels. Glyph.x is an integer, in whole pixels.                         *)

MaxRow == 3

(* Glyph: the fields place_horizontal reads or writes *)
RowGlyph(sp, rb, advance, width, x) ==
    [split |-> sp, ruby |-> rb, advance |-> advance, width |-> width, x |-> x]

(* line 686: <int> (x + .5), x in half pixels *)
CastHalf(x) == ToInt(x + 1, 2)

(* lines 696-697, x in half pixels *)
Clamp(x) == IF x > 2 * MAX_WIDTH THEN 2 * MAX_WIDTH ELSE x

(* line 673: the truth value of old_g *)
HasOldGlyph(old_g) == old_g # None

(* lines 673-677 *)
EndOfLineAdvance(gl, g, old_g) ==
    IF g.split # SPLIT_NONE /\ HasOldGlyph(old_g)
    THEN [gl EXCEPT ![old_g].advance = gl[old_g].width]
    ELSE gl

RECURSIVE PlaceHorizontalFrom(_, _, _, _, _, _)
(* lines 662-701: the loop from glyph i on; rest is start_x + rest_indent *)
PlaceHorizontalFrom(gl, i, x, maxx, old_g, rest) ==
    IF i > Len(gl)
    THEN [glyphs |-> gl, maxx |-> maxx]
    ELSE IF IsRubyText(gl[i])
    THEN PlaceHorizontalFrom(gl, i + 1, x, maxx, old_g, rest)
    ELSE LET gl1 == IF gl[i].split = SPLIT_IGNORE
                    THEN [gl EXCEPT ![i].split = SPLIT_NONE]
                    ELSE gl
             gl2 == EndOfLineAdvance(gl1, gl1[i], old_g)
             g == gl2[i]
         IN  IF g.split = SPLIT_INSTEAD
             THEN PlaceHorizontalFrom(gl2, i + 1, rest, maxx, old_g, rest)
             ELSE LET x1 == IF g.split = SPLIT_BEFORE THEN rest ELSE x
                      m1 == IF maxx < x1 + g.width THEN x1 + g.width ELSE maxx
                      m2 == IF m1 < x1 + g.advance THEN x1 + g.advance ELSE m1
                  IN  PlaceHorizontalFrom([gl2 EXCEPT ![i].x = CastHalf(x1)],
                                          i + 1, Clamp(x1 + g.advance), m2, i, rest)

(* start_x, first_indent and rest_indent in half pixels *)
StartXs == {0, 2}
FirstIndents == {0 - 4, 1, 2 * MAX_WIDTH - 2}
RestIndents == {0 - 2, 0}

(* lines 646-701 *)
PlaceHorizontal ==
    /\ lb.pc = "shaped"
    /\ \E start_x \in StartXs, first_indent \in FirstIndents,
          rest_indent \in RestIndents :
          LET r == IF glyphs = <<>>
                   THEN [glyphs |-> glyphs, maxx |-> 0]
                   ELSE PlaceHorizontalFrom(glyphs, 1, start_x + first_indent, 0,
                                            None, start_x + rest_indent)
          IN  /\ glyphs' = r.glyphs
              /\ out' = r.maxx
              /\ lb' = [pc |-> "horizontal", start_x |-> start_x,
                        first_indent |-> first_indent,
                        rest_indent |-> rest_indent]
    /\ UNCHANGED <<s, lenticular, tok, orig, lines, break_tailor>>

----------------------------------------------------------------------------
(* The arrays place_horizontal is given: base glyphs of every split class  *)
(* with an advance and a width (in half pixels), ruby text with no split;  *)
(* every glyph comes with an x that no placement of these arrays yields.   *)

RowSizes == {<<2, 2>>, <<2, 4>>, <<3, 2>>}

RowKinds ==
    {RowGlyph(sp, RUBY_NONE, z[1], z[2], 7) : sp \in Splits, z \in RowSizes}
    \cup {RowGlyph(SPLIT_NONE, r, 2, 2, 7) : r \in {RUBY_TOP, RUBY_ALT}}

InitHorizontal ==
    /\ s = <<>>
    /\ lenticular = FALSE
    /\ tok = TokIdle
    /\ \E n \in 0..MaxRow : glyphs \in [1..n -> RowKinds]
    /\ orig = glyphs
    /\ lb = [pc |-> "shaped"]
    /\ out = <<>>
    /\ lines = <<>>
    /\ break_tailor = <<>>

NextHorizontal == PlaceHorizontal

SpecHorizontal == InitHorizontal /\ [][NextHorizontal]_vars

(* the glyphs the walk places: neither ruby text nor a split-instead *)
IsPlaced(g) == ~IsRubyText(g) /\ g.split # SPLIT_INSTEAD

RECURSIVE CursorAt(_, _, _)
(* the claimed cursor, in half pixels, on arrival at glyph i *)
CursorAt(i, first, rest) ==
    IF i = 1
    THEN first
    ELSE LET g == orig[i - 1]
             x == CursorAt(i - 1, first, rest)
         IN  IF IsRubyText(g) THEN x
             ELSE IF g.split = SPLIT_INSTEAD THEN rest
             ELSE IF g.split = SPLIT_BEFORE THEN Clamp(rest + g.advance)
             ELSE Clamp(x + g.advance)

(* the claimed position of a placed glyph, in half pixels *)
PlacedAt(i, first, rest) ==
    IF orig[i].split = SPLIT_BEFORE THEN rest ELSE CursorAt(i, first, rest)

(* n is the cursor x (in half pixels) rounded to whole pixels *)
IsRounded(n, x) == 2 * n - x \in {0 - 1, 0, 1}

(* C21: place_horizontal leaves ruby-top/alt and split-instead glyphs      *)
(* where they were, places every other glyph at the rounded cursor (reset  *)
(* to start_x + rest_indent at each split-instead and split-before,        *)
(* advanced by each placed glyph's advance and clamped to 8192), and       *)
(* returns the largest cursor + max(width, advance) over the placed        *)
(* glyphs, 0 for an empty array.                                           *)
C21_PlacedAtCursor ==
    lb.pc = "horizontal" =>
        LET first == lb.start_x + lb.first_indent
            rest == lb.start_x + lb.rest_indent
            placed == {i \in 1..Len(orig) : IsPlaced(orig[i])}
        IN  /\ Len(glyphs) = Len(orig)
            /\ \A i \in 1..Len(orig) :
                  IF i \in placed
                  THEN IsRounded(glyphs[i].x, PlacedAt(i, first, rest))
                  ELSE glyphs[i].x = orig[i].x
            /\ placed # {} =>
                  out = Max({PlacedAt(i, first, rest)
                             + Max({orig[i].width, orig[i].advance}) : i \in placed})
            /\ orig = <<>> => out = 0

----------------------------------------------------------------------------
(* assign_times, block after block: the caller hands the first block of    *)
(* the glyphs to one call and the rest, with the value returned, to the    *)
(* next. The blocks hold the Glyph objects of the one array.               *)

MaxBlocks == 3

(* the call on the glyphs 1..a *)
AssignTimesFirst ==
    /\ lb.pc = "placed"
    /\ \E t \in StartTimes : \E gps \in Rates : \E a \in 0..Len(glyphs) :
          LET r == AssignTimesFrom(SubSeq(glyphs, 1, a), 1, t, Tpg(gps))
          IN  /\ glyphs' = r.glyphs \o SubSeq(glyphs, a + 1, Len(glyphs))
              /\ out' = r.t
              /\ lb' = [pc |-> "first", t |-> t, gps |-> gps, a |-> a]
    /\ UNCHANGED <<s, lenticular, tok, orig, lines, break_tailor>>

(* the call on the glyphs after a, from the value the first call returned *)
AssignTimesSecond ==
    /\ lb.pc = "first"
    /\ LET r == AssignTimesFrom(SubSeq(glyphs, lb.a + 1, Len(glyphs)), 1, out,
                                Tpg(lb.gps))
       IN  /\ glyphs' = SubSeq(glyphs, 1, lb.a) \o r.glyphs
           /\ out' = r.t
           /\ lb' = [lb EXCEPT !.pc = "second"]
    /\ UNCHANGED <<s, lenticular, tok, orig, lines, break_tailor>>

InitBlocks ==
    /\ s = <<>>
    /\ lenticular = FALSE
    /\ tok = TokIdle
    /\ \E n \in 0..MaxBlocks : \E k \in [1..n -> TimeKinds] :
          glyphs = [i \in 1..n |-> PlacedGlyph(k[i].ruby, k[i].time, 0, 0, 0)]
    /\ orig = glyphs
    /\ lb = [pc |-> "placed"]
    /\ out = <<>>
    /\ lines = <<>>
    /\ break_tailor = <<>>

NextBlocks ==
    \/ AssignTimesFirst
    \/ AssignTimesSecond

SpecBlocks == InitBlocks /\ [][NextBlocks]_vars

(* C22: assign_times on a block A from t, then on a block B from the value *)
(* returned for A, leaves every glyph with the time and duration that one  *)
(* call on A followed by B from t gives it, and returns the same value.    *)
C22_BlocksCompose ==
    lb.pc = "second" =>
        LET whole == AssignTimesFrom(orig, 1, lb.t, Tpg(lb.gps))
        IN  /\ glyphs = whole.glyphs
            /\ out = whole.t

(* both blocks hold a glyph that takes a time, one of them ruby text too,  *)
(* and time passes from glyph to glyph                                     *)
C22_Witness ==
    /\ lb.pc = "second"
    /\ lb.gps # 0
    /\ \E i \in 1..lb.a : Timed(orig[i])
    /\ \E i \in (lb.a + 1)..Len(orig) : Timed(orig[i])
    /\ \E i \in 1..Len(orig) : ~Timed(orig[i])

----------------------------------------------------------------------------
(* place_ruby, one turn of the outer while loop per step. Glyph.x, width   *)
(* and advance are whole pixels here; the float x of the run being placed  *)
(* is counted in half pixels.                                              *)

MaxTypeset == 3

(* Glyph: the fields place_vertical, place_ruby and align_and_justify read *)
(* or write                                                                *)
TypesetGlyph(c, sp, rb, ascent, line_spacing, x, width, advance) ==
    [character |-> c, split |-> sp, ruby |-> rb, ascent |-> ascent,
     line_spacing |-> line_spacing, x |-> x, y |-> 0, width |-> width,
     advance |-> advance]

(* lines 984-991: the locals before the loop *)
RubyFrame(ruby_offset, altruby_offset) ==
    [pc |-> "ruby", pos |-> 1, last_ruby |-> RUBY_NONE, min_x |-> 0,
     max_x |-> 0, y |-> 0, ruby_offset |-> ruby_offset,
     altruby_offset |-> altruby_offset]

SameRubyNever(g, last_ruby) == FALSE

(* line 1032, negated: the glyph goes on the run *)
SameRuby(g, last_ruby) == g.ruby = last_ruby

RECURSIVE RubyRunEnd(_, _, _)
(* lines 1029-1035: pos after the inner while loop *)
RubyRunEnd(gl, pos, last_ruby) ==
    IF pos <= Len(gl) /\ SameRuby(gl[pos], last_ruby)
    THEN RubyRunEnd(gl, pos + 1, last_ruby)
    ELSE pos

RECURSIVE RunAdvance(_, _, _)
(* lines 1039-1042: the advances of gl[from..to - 1] *)
RunAdvance(gl, from, to) ==
    IF from >= to THEN 0 ELSE gl[from].advance + RunAdvance(gl, from + 1, to)

(* lines 1039-1045 *)
RunWidth(gl, start_top, pos) ==
    RunAdvance(gl, start_top, pos) - gl[pos - 1].advance + gl[pos - 1].width

(* lines 1048-1059: x is (max_x + min_x) / 2 - width / 2, in half pixels   *)
PlaceRun(gl, start_top, pos, f) ==
    LET x == (f.max_x + f.min_x) - RunWidth(gl, start_top, pos)
    IN  [i \in DOMAIN gl |->
            IF i < start_top \/ i >= pos
            THEN gl[i]
            ELSE [gl[i] EXCEPT
                    !.x = ToInt(x + 2 * RunAdvance(gl, start_top, i) + 1, 2),
                    !.y = IF gl[i].ruby = RUBY_TOP
                          THEN f.y + f.ruby_offset
                          ELSE f.y + f.altruby_offset]]

(* lines 993-1059: one turn of the loop, on the glyphs gl with locals f *)
RubyTurn(gl, f) ==
    LET g == gl[f.pos]
    IN  IF g.ruby = RUBY_NONE
        THEN [glyphs |-> gl,
              f |-> [f EXCEPT !.min_x = g.x, !.max_x = g.x + g.width, !.y = g.y,
                              !.last_ruby = RUBY_NONE, !.pos = f.pos + 1]]
        ELSE IF g.ruby = RUBY_BOTTOM
        THEN [glyphs |-> gl,
              f |-> [f EXCEPT !.min_x = IF f.last_ruby # RUBY_BOTTOM THEN g.x ELSE @,
                              !.max_x = g.x + g.width, !.y = g.y,
                              !.last_ruby = RUBY_BOTTOM, !.pos = f.pos + 1]]
        ELSE LET pos == RubyRunEnd(gl, f.pos, g.ruby)
             IN  [glyphs |-> PlaceRun(gl, f.pos, pos, f),
                  f |-> [f EXCEPT !.last_ruby = g.ruby, !.pos = pos]]

RubyOffsets == {0 - 2}
AltRubyOffsets == {0 - 4}

PlaceRubyEnter ==
    /\ lb.pc = "placed"
    /\ \E ruby_offset \in RubyOffsets : \E altruby_offset \in AltRubyOffsets :
          lb' = IF glyphs = <<>>
                THEN [pc |-> "rubied"]
                ELSE RubyFrame(ruby_offset, altruby_offset)
    /\ UNCHANGED <<s, lenticular, tok, glyphs, orig, out, lines, break_tailor>>

PlaceRubyStep ==
    /\ lb.pc = "ruby"
    /\ LET r == RubyTurn(glyphs, lb)
       IN  /\ glyphs' = r.glyphs
           /\ lb' = IF r.f.pos > Len(glyphs) THEN [pc |-> "rubied"] ELSE r.f
    /\ UNCHANGED <<s, lenticular, tok, orig, out, lines, break_tailor>>

----------------------------------------------------------------------------
(* The arrays place_vertical and then place_ruby are given: every split    *)
(* class with every ruby role, glyph after glyph from left to right.       *)

Rubies == {RUBY_NONE, RUBY_BOTTOM, RUBY_TOP, RUBY_ALT}

TypesetKinds == [split : Splits, ruby : Rubies]

InitTypeset ==
    /\ s = <<>>
    /\ lenticular = FALSE
    /\ tok = TokIdle
    /\ \E n \in 0..MaxTypeset : \E k \in [1..n -> TypesetKinds] :
          glyphs = [i \in 1..n |->
                       TypesetGlyph(LETTER, k[i].split, k[i].ruby, 1, 2, i, 2, 1)]
    /\ orig = glyphs
    /\ lb = [pc |-> "shaped", y |-> 0]
    /\ out = <<>>
    /\ lines = <<>>
    /\ break_tailor = <<>>

NextTypeset ==
    \/ PlaceVerticalEnter
    \/ PlaceVerticalStep
    \/ PlaceRubyEnter
    \/ PlaceRubyStep

SpecTypeset == InitTypeset /\ [][NextTypeset]_vars

(* each function runs on once called: a loop turn that can be taken is     *)
(* taken                                                                   *)
SpecTypesetRuns == SpecTypeset /\ WF_vars(NextTypeset)

(* C23: place_vertical and then place_ruby, called on any glyph array,     *)
(* every split class and ruby role at every place, both return: the loops  *)
(* end, place_vertical with at least one line to mark as the paragraph's   *)
(* last when the array is not empty.                                       *)
C23_Returns ==
    /\ <>(lb.pc = "rubied")
    /\ [](lb.pc = "placed" /\ orig # <<>> => lines # <<>>)

(* both have returned on an array that starts with two split-instead       *)
(* glyphs and ends with ruby text                                          *)
C23_Witness ==
    /\ lb.pc = "rubied"
    /\ Len(orig) = MaxTypeset
    /\ orig[1].split = SPLIT_INSTEAD
    /\ orig[2].split = SPLIT_INSTEAD
    /\ orig[Len(orig)].ruby = RUBY_TOP

----------------------------------------------------------------------------
(* place_ruby and then align_and_justify: the order of the stages is the  *)
(* caller's, ruby placement before alignment and justification.            *)

MaxRubied == 4

RECURSIVE PlaceRubyFrom(_, _)
(* lines 993-1059: the loop from the turn with locals f on *)
PlaceRubyFrom(gl, f) ==
    IF f.pos > Len(gl)
    THEN gl
    ELSE LET r == RubyTurn(gl, f)
         IN  PlaceRubyFrom(r.glyphs, r.f)

(* the room glyph k[i] takes on its line: ruby text takes none *)
BaseRoom(k, i) == IF IsRubyText(k[i]) THEN 0 ELSE 2

RECURSIVE BaseRoomBefore(_, _, _)
BaseRoomBefore(k, from, i) ==
    IF i <= from THEN 0 ELSE BaseRoomBefore(k, from, i - 1) + BaseRoom(k, i - 1)

(* the array of kinds k as place_horizontal and place_vertical leave it,   *)
(* cut into two lines after glyph a                                        *)
PlacedArray(k, a) ==
    [i \in DOMAIN k |->
        [TypesetGlyph(k[i].character, SPLIT_NONE, k[i].ruby, 1, 2,
                      BaseRoomBefore(k, IF i <= a THEN 1 ELSE a + 1, i), 2, 2)
            EXCEPT !.y = IF i <= a THEN 1 ELSE 3]]

RubiedKinds ==
    [character : {SPACE, LETTER}, ruby : {RUBY_NONE}]
    \cup [character : {LETTER}, ruby : {RUBY_BOTTOM, RUBY_TOP, RUBY_ALT}]

InitRubied ==
    /\ s = <<>>
    /\ lenticular = FALSE
    /\ tok = TokIdle
    /\ \E n \in 1..MaxRubied : \E k \in [1..n -> RubiedKinds] : \E a \in 0..n :
          \E ruby_offset \in RubyOffsets : \E altruby_offset \in AltRubyOffsets :
             /\ glyphs = PlaceRubyFrom(PlacedArray(k, a),
                                       RubyFrame(ruby_offset, altruby_offset))
             /\ lines = <<Line(0, 1, 2, Slice(1, a)),
                          [Line(2, 3, 2, Slice(a + 1, n)) EXCEPT !.eop = TRUE]>>
    /\ orig = glyphs
    /\ lb = [pc |-> "placed"]
    /\ out = <<>>
    /\ break_tailor = <<>>

NextRubied == AlignAndJustify

SpecRubied == InitRubied /\ [][NextRubied]_vars

(* the base glyphs ruby text i annotates: the base span just before its run *)
BaseOf(i) ==
    LET before == {j \in 1..(i - 1) : ~IsRubyText(orig[j])}
        last == Max(before)
    IN  IF before = {} THEN {}
        ELSE {j \in before :
                 /\ \A m \in j..last : ~IsRubyText(orig[m])
                 /\ j # last => \A m \in j..last : orig[m].ruby = RUBY_BOTTOM}

(* C24: after place_ruby and then align_and_justify, every ruby-top/alt    *)
(* glyph has moved by the same amount as the base glyphs it annotates.     *)
C24_RubyMovesWithBase ==
    lb.pc = "aligned" =>
        \A i \in 1..Len(glyphs) :
            IsRubyText(orig[i]) => \A j \in BaseOf(i) : Moved(i) = Moved(j)

----------------------------------------------------------------------------
(* place_vertical: the lines tile the block. *)

(* C25: the lines place_vertical has made so far lie one under the other   *)
(* with no gap and no overlap: the first starts at the y passed in, each   *)
(* later one at the y of the line before plus that line's height, and the  *)
(* y returned is the last line's y plus its height; with and without ruby  *)
(* text on a line, and for empty lines.                                    *)
C25_LinesTile ==
    (lb.pc \in {"vertical", "placed"} /\ lines # <<>>) =>
        /\ lines[1].y = lb.y0
        /\ \A k \in 2..Len(lines) :
              lines[k].y = lines[k - 1].y + lines[k - 1].height
        /\ lb.pc = "placed" =>
              out = lines[Len(lines)].y + lines[Len(lines)].height

(* place_vertical has returned three lines of a block that does not start  *)
(* at 0: one with ruby text, one empty, not all of one height              *)
C25_Witness ==
    /\ lb.pc = "placed"
    /\ lb.y0 # 0
    /\ Len(lines) = 3
    /\ out = lines[Len(lines)].y + lines[Len(lines)].height
    /\ \E k \in 1..Len(lines) : lines[k].glyphs = <<>>
    /\ \E k \in 1..Len(lines) :
          \E p \in DOMAIN lines[k].glyphs : IsRubyText(glyphs[lines[k].glyphs[p]])
    /\ lines[1].height # lines[2].height

----------------------------------------------------------------------------
(* language_tailor: the indices written. *)

(* C26: every index language_tailor has written at lies in the              *)
(* break-tailoring table, 0..65535, whatever characters the strings held.  *)
C26_WritesInsideTable == \A i \in lb.written : InTable(i)

----------------------------------------------------------------------------
(* linebreak_greedy: text that fits. *)

(* the glyphs of the array handed in that take room: all but ruby text *)
Counted == {i \in 1..Len(orig) : ~IsRubyText(orig[i])}

RECURSIVE AdvanceOf(_)
(* the advances of the glyphs I of the array handed in, added up *)
AdvanceOf(I) ==
    IF I = {} THEN 0
    ELSE LET i == CHOOSE j \in I : TRUE
         IN  orig[i].advance + AdvanceOf(I \ {i})

(* C27: when the advances of all glyphs other than ruby-top/alt glyphs add *)
(* up to at most first_width, linebreak_greedy leaves split-before or      *)
(* split-instead on no glyph other than ruby-top/alt glyphs, whatever      *)
(* candidates the array came with.                                         *)
C27_FittingTextUnbroken ==
    (GreedyDone /\ AdvanceOf(Counted) <= lb.first_width) =>
        \A i \in Counted : ~IsCandidate(glyphs[i])

(* a fitting array that came with a split-instead and a split-before       *)
(* candidate around ruby text                                              *)
C27_Witness ==
    /\ GreedyDone
    /\ AdvanceOf(Counted) = lb.first_width
    /\ \E i, j \in Counted :
          /\ i < j
          /\ orig[i].split = SPLIT_INSTEAD
          /\ orig[j].split = SPLIT_BEFORE
          /\ \E r \in 1..Len(orig) : IsRubyText(orig[r])

====
